---- MODULE Spec2Model ----
(***************************************************************************)
(* Word Runner: the gate pipeline of the two game loops (Game3D and the    *)
(* Phaser GameScene), with the ScoreSystem and DifficultySystem they call. *)
(*                                                                         *)
(* Units.  Times are milliseconds.  A speed multiplier is held in tenths   *)
(* (1.0 is 10).  A gate's progress is held as the numerator of a fraction  *)
(* whose denominator is 10 * GATE_TRAVEL_TIME, i.e. elapsed * speed.       *)
(* Thresholds are percentages (0.98 is 98).  Distance is held in 1/100 m.  *)
(***************************************************************************)
EXTENDS Integers, Sequences, FiniteSets, TLC

VARIABLES
  engine,             \* which game loop this session runs: "Game3D" or "GameScene"
  now,                \* performance.now() / Phaser's time.now at the last frame
  clockRunning,       \* THREE.Clock.running (Game3D)
  clockOldTime,       \* THREE.Clock.oldTime (Game3D)
  currentLane, targetX, playerX, isMoving,
  tweenStart,         \* start time of the lane tween (GameScene)
  scoreSystem,        \* ScoreSystem fields
  difficultySystem,   \* DifficultySystem.currentSettings
  distance, lives, gameSpeed,
  gates,              \* gates / gates3D, in the array's order
  lastGateSpawnTime, questionStartTime,
  prompt,             \* id of the question shown in questionElement / englishWordText
  isPaused, isGameOver,
  stats,              \* the GameStats snapshot built by gameOver(), or NoStats
  disposed,           \* dispose() + reload (Game3D), scene shut down (GameScene)
  useCustomDeck,      \* the constructor's useCustomDeck argument (Game3D)
  customWords,        \* number of words in WordManager.customWords, 0 for null
  \* ---- history variables (observations, never read by the program) ----
  lastTick,           \* time of the latest frame that ran the gate loop
  nextGateId,         \* number of spawnGate calls so far
  resolvedLog,        \* ids of the gates passed to processGateCollision, in order
  removedLog,         \* ids of the gates spliced out of the active list, in order
  lastResolution,     \* what the latest processGateCollision saw
  pausedTotal,        \* wall time spent with isPaused set
  pausedAtSpawn,      \* pausedTotal at each gate's spawn
  publishedAt,        \* per gate: when its question became the prompt, or -1
  postGameOverOps,    \* pipeline operations performed after gameOver() was called
  lastInput,          \* the input event handled by the latest step, and the state it met
  cuesNow,            \* the soundManager.play calls of the latest step, in order
  lastCall,           \* the latest direct call of calculateScore: arguments, result, state before
  lastUpdate,         \* the latest direct call of DifficultySystem.update, and the callback's calls
  wordManager,        \* WordManager fields: recentWords, customWords
  lastQuestion,       \* the latest direct call of generateQuestion and what it returned
  deckStore,          \* localStorage's wordrunner_custom_deck item and TitleScene.useCustomDeck
  lastImport          \* the latest CSV parse or import: content, result, what was reported

vars == <<engine, now, clockRunning, clockOldTime, currentLane, targetX, playerX,
          isMoving, tweenStart, scoreSystem, difficultySystem, distance, lives,
          gameSpeed, gates, lastGateSpawnTime, questionStartTime, prompt, isPaused,
          isGameOver, stats, disposed, useCustomDeck, customWords, lastTick, nextGateId, resolvedLog, removedLog,
          lastResolution, pausedTotal, pausedAtSpawn, publishedAt, postGameOverOps,
          lastInput, cuesNow, lastCall, lastUpdate, wordManager, lastQuestion,
          deckStore, lastImport>>

(***************************************************************************)
(* Bounds of the model.                                                    *)
(***************************************************************************)
MaxTime == 9700          \* wall-clock horizon of Spec
MaxTimeLong == 73000     \* wall-clock horizon of SpecLong
MaxTimeOver == 19800     \* wall-clock horizon of SpecOver
MaxX == 6                \* player.position.x is recorded within -MaxX..MaxX
DeckSize == 3            \* words of a stored custom deck, when there is one
WordsPerLevel == 21      \* words in each level table
NumCategories == 3       \* categories the words are spread over
RandomDen == 8           \* Math.random() yields the fractions 0/8 .. 7/8
RandomStride == 3        \* step between successive draws of one call
WarmUp == 18             \* first calls of generateQuestion in SpecWords, drawing 0 at level 1
MaxQuestions == 6        \* calls of generateQuestion after the warm-up
MaxSignal == 9000        \* largest progress signal passed to update in SpecDifficulty
MaxAnswers == 20         \* calls of calculateScore in SpecScore
MaxWrong == 1            \* of which incorrect answers
MaxTimeLevel == 3313200  \* wall-clock horizon of SpecLevel: 502 frames

\* Frame spacings (ms) offered to the frame callback.  Spec has frames that step a
\* gate to its collision and through the window between spawn spacing and
\* retirement, with pauses.  SpecLong has one frame per gate, with pauses, over a
\* session long enough for an extra life; SpecOver has one frame per gate and every
\* input, over a session long enough to lose three lives.
FrameDeltas == {560, 4000}
LongFrameDeltas == {6600}

(***************************************************************************)
(* Program constants.                                                      *)
(***************************************************************************)
Lanes == {"left", "center", "right"}
Engines == {"Game3D", "GameScene"}

LANE_WIDTH == 2
GATE_TRAVEL_TIME == 4000
GATE_SPACING_TIME == 4500
COLLISION_PROGRESS == 98
RETIRE_PROGRESS == 115
MOVE_GAIN == 50
INITIAL_LIVES == 3
LIFE_EVERY == 10

SCENE_GATE_TRAVEL_TIME == 6000
SCENE_GATE_SPACING_TIME == 6500
SCENE_COLLISION_PROGRESS == 95
SCENE_RETIRE_PROGRESS == 110
SCENE_TWEEN_DURATION == 120

BASE_POINTS == 100
SPEED_BONUS == 50
SPEED_BONUS_LIMIT == 1000

NoStats == [none |-> TRUE]
NoResolution == [gate |-> 0]
NoInput == [kind |-> "none"]
NoCall == [hskLevel |-> 0]
NoUpdate == [variant |-> "none"]
NoDeck == <<>>
NewDeckStore == [item |-> NoDeck, useCustomDeck |-> FALSE]
NoImport == [handler |-> "none"]
NoQuestion ==
  [hskLevel |-> 0, generated |-> <<>>, fewestTexts |-> 1000000]
NewWordManager == [recentWords |-> <<>>, customWords |-> <<>>]

Min(a, b) == IF a < b THEN a ELSE b
Max(a, b) == IF a > b THEN a ELSE b

\* The recorded player position.  The program reads the position only through
\* |targetX - x| > 0.01, and an overshoot recorded at the bound stays off every
\* lane centre (MaxX > LANE_WIDTH), so the record keeps that test exact for as
\* long as the position is a finite double.  A position that overshoots by more
\* every tick overflows after more than a hundred ticks (over a thousand at 60 ms
\* per tick); dx is then NaN, the test fails and the lock is cleared.  Runs are
\* not followed through that overflow.
Recorded(x) == IF x > MaxX THEN MaxX ELSE IF x < -MaxX THEN -MaxX ELSE x

(***************************************************************************)
(* ScoreSystem                                                             *)
(***************************************************************************)
NewScoreSystem ==
  [score |-> 0, streak |-> 0, maxStreak |-> 0, correctAnswers |-> 0, totalAnswers |-> 0]

\* Lines 41-44 with line 43 testing `this.streak % 10 === 0`: 500 at every tenth answer
StreakBonusRepeating(streak) ==
  IF streak = 5 THEN 200
  ELSE IF streak % 10 = 0 THEN 500
  ELSE IF streak > 10 /\ streak % 5 = 0 THEN 300
  ELSE 0

\* Lines 41-44: streakBonus, read after this.streak++ (line 31)
StreakBonus(streak) ==
  IF streak = 5 THEN 200
  ELSE IF streak = 10 THEN 500
  ELSE IF streak > 10 /\ streak % 5 = 0 THEN 300
  ELSE 0

\* Line 47 as `1 + hskLevel * 0.2`, in tenths
LevelMultiplierFromZero(hskLevel) == 10 + hskLevel * 2

\* multiplier = 1 + (hskLevel - 1) * 0.2, in tenths
LevelMultiplier(hskLevel) == 10 + (hskLevel - 1) * 2

\* calculateScore without line 20: an incorrect answer keeps the streak
CalculateScoreKeepStreak(ss, correct, decisionTimeMs, hskLevel) ==
  IF ~correct
  THEN [sys |-> [ss EXCEPT !.totalAnswers = @ + 1, !.streak = @],
        result |-> [basePoints |-> 0, speedBonus |-> 0, streakBonus |-> 0,
                    multiplier |-> 10, totalPoints |-> 0]]
  ELSE LET streak == ss.streak + 1
           speedBonus == IF decisionTimeMs < SPEED_BONUS_LIMIT THEN SPEED_BONUS ELSE 0
           streakBonus == StreakBonus(streak)
           multiplier == LevelMultiplier(hskLevel)
           totalPoints == ((BASE_POINTS + speedBonus) * multiplier) \div 10 + streakBonus
       IN [sys |-> [score |-> ss.score + totalPoints,
                    streak |-> streak,
                    maxStreak |-> Max(ss.maxStreak, streak),
                    correctAnswers |-> ss.correctAnswers + 1,
                    totalAnswers |-> ss.totalAnswers + 1],
           result |-> [basePoints |-> BASE_POINTS, speedBonus |-> speedBonus,
                       streakBonus |-> streakBonus, multiplier |-> multiplier,
                       totalPoints |-> totalPoints]]

\* calculateScore with line 38 testing `decisionTimeMs <= 1000`
CalculateScoreLateBonus(ss, correct, decisionTimeMs, hskLevel) ==
  IF ~correct
  THEN [sys |-> [ss EXCEPT !.totalAnswers = @ + 1, !.streak = 0],
        result |-> [basePoints |-> 0, speedBonus |-> 0, streakBonus |-> 0,
                    multiplier |-> 10, totalPoints |-> 0]]
  ELSE LET streak == ss.streak + 1
           speedBonus == IF decisionTimeMs <= SPEED_BONUS_LIMIT THEN SPEED_BONUS ELSE 0
           streakBonus == StreakBonus(streak)
           multiplier == LevelMultiplier(hskLevel)
           totalPoints == ((BASE_POINTS + speedBonus) * multiplier) \div 10 + streakBonus
       IN [sys |-> [score |-> ss.score + totalPoints,
                    streak |-> streak,
                    maxStreak |-> Max(ss.maxStreak, streak),
                    correctAnswers |-> ss.correctAnswers + 1,
                    totalAnswers |-> ss.totalAnswers + 1],
           result |-> [basePoints |-> BASE_POINTS, speedBonus |-> speedBonus,
                       streakBonus |-> streakBonus, multiplier |-> multiplier,
                       totalPoints |-> totalPoints]]

\* calculateScore without line 32: maxStreak is never raised
CalculateScoreNoMax(ss, correct, decisionTimeMs, hskLevel) ==
  IF ~correct
  THEN [sys |-> [ss EXCEPT !.totalAnswers = @ + 1, !.streak = 0],
        result |-> [basePoints |-> 0, speedBonus |-> 0, streakBonus |-> 0,
                    multiplier |-> 10, totalPoints |-> 0]]
  ELSE LET streak == ss.streak + 1
           speedBonus == IF decisionTimeMs < SPEED_BONUS_LIMIT THEN SPEED_BONUS ELSE 0
           streakBonus == StreakBonus(streak)
           multiplier == LevelMultiplier(hskLevel)
           totalPoints == ((BASE_POINTS + speedBonus) * multiplier) \div 10 + streakBonus
       IN [sys |-> [score |-> ss.score + totalPoints,
                    streak |-> streak,
                    maxStreak |-> ss.maxStreak,
                    correctAnswers |-> ss.correctAnswers + 1,
                    totalAnswers |-> ss.totalAnswers + 1],
           result |-> [basePoints |-> BASE_POINTS, speedBonus |-> speedBonus,
                       streakBonus |-> streakBonus, multiplier |-> multiplier,
                       totalPoints |-> totalPoints]]

\* calculateScore: the new ScoreSystem fields and the returned ScoreResult
CalculateScore(ss, correct, decisionTimeMs, hskLevel) ==
  IF ~correct
  THEN [sys |-> [ss EXCEPT !.totalAnswers = @ + 1, !.streak = 0],
        result |-> [basePoints |-> 0, speedBonus |-> 0, streakBonus |-> 0,
                    multiplier |-> 10, totalPoints |-> 0]]
  ELSE LET streak == ss.streak + 1
           speedBonus == IF decisionTimeMs < SPEED_BONUS_LIMIT THEN SPEED_BONUS ELSE 0
           streakBonus == StreakBonus(streak)
           multiplier == LevelMultiplier(hskLevel)
           totalPoints == ((BASE_POINTS + speedBonus) * multiplier) \div 10 + streakBonus
       IN [sys |-> [score |-> ss.score + totalPoints,
                    streak |-> streak,
                    maxStreak |-> Max(ss.maxStreak, streak),
                    correctAnswers |-> ss.correctAnswers + 1,
                    totalAnswers |-> ss.totalAnswers + 1],
           result |-> [basePoints |-> BASE_POINTS, speedBonus |-> speedBonus,
                       streakBonus |-> streakBonus, multiplier |-> multiplier,
                       totalPoints |-> totalPoints]]

(***************************************************************************)
(* DifficultySystem (src/systems/DifficultySystem.ts)                      *)
(***************************************************************************)
DIFFICULTY_THRESHOLDS == <<
  [distance |-> 0,    hskLevel |-> 1, speed |-> 10, decisionTime |-> 3000],
  [distance |-> 500,  hskLevel |-> 2, speed |-> 11, decisionTime |-> 2700],
  [distance |-> 1500, hskLevel |-> 3, speed |-> 12, decisionTime |-> 2400],
  [distance |-> 3000, hskLevel |-> 4, speed |-> 13, decisionTime |-> 2100],
  [distance |-> 5000, hskLevel |-> 5, speed |-> 14, decisionTime |-> 1800],
  [distance |-> 8000, hskLevel |-> 6, speed |-> 15, decisionTime |-> 1500] >>

NewDifficultySystem == [hskLevel |-> 1, speedMultiplier |-> 10, decisionTime |-> 3000]

\* update(signal) with the loop of lines 36-46 run from the first tier upwards
DifficultyUpdateFromFirst(ds, signal) ==
  IF signal >= DIFFICULTY_THRESHOLDS[1].distance
  THEN [hskLevel |-> DIFFICULTY_THRESHOLDS[1].hskLevel,
        speedMultiplier |-> DIFFICULTY_THRESHOLDS[1].speed,
        decisionTime |-> DIFFICULTY_THRESHOLDS[1].decisionTime]
  ELSE NewDifficultySystem

\* update(signal): the highest tier whose threshold is <= signal; unchanged if none
DifficultyUpdate(ds, signal) ==
  LET hits == {i \in 1..Len(DIFFICULTY_THRESHOLDS) : signal >= DIFFICULTY_THRESHOLDS[i].distance}
  IN IF hits = {} THEN ds
     ELSE LET i == CHOOSE k \in hits : \A j \in hits : j <= k
              th == DIFFICULTY_THRESHOLDS[i]
          IN [hskLevel |-> th.hskLevel, speedMultiplier |-> th.speed,
              decisionTime |-> th.decisionTime]

\* The count-gated DifficultySystem (unnamed/part_004, lines 755-822)
CORRECT_ANSWERS_PER_LEVEL == 50
MAX_LEVEL == 6
LEVEL_SETTINGS == <<
  [hskLevel |-> 1, speed |-> 100, decisionTime |-> 3000],
  [hskLevel |-> 2, speed |-> 105, decisionTime |-> 2800],
  [hskLevel |-> 3, speed |-> 110, decisionTime |-> 2600],
  [hskLevel |-> 4, speed |-> 115, decisionTime |-> 2400],
  [hskLevel |-> 5, speed |-> 120, decisionTime |-> 2200],
  [hskLevel |-> 6, speed |-> 125, decisionTime |-> 2000] >>

\* settings of LEVEL_SETTINGS[newLevel - 1]; speed in hundredths.  Past the end of
\* the table the element is undefined and reading settings.hskLevel throws.
LevelSettings(newLevel) ==
  IF newLevel \in 1..Len(LEVEL_SETTINGS)
  THEN [hskLevel |-> LEVEL_SETTINGS[newLevel].hskLevel,
        speedMultiplier |-> LEVEL_SETTINGS[newLevel].speed,
        decisionTime |-> LEVEL_SETTINGS[newLevel].decisionTime]
  ELSE [hskLevel |-> newLevel, speedMultiplier |-> 0, decisionTime |-> 0]

\* update(correctAnswers) without Math.min(6, ...) on line 793
CountDifficultyUpdateUncapped(ds, correctAnswers) ==
  LevelSettings(correctAnswers \div CORRECT_ANSWERS_PER_LEVEL + 1)

\* update(correctAnswers), lines 789-802
CountDifficultyUpdate(ds, correctAnswers) ==
  LevelSettings(Min(MAX_LEVEL, correctAnswers \div CORRECT_ANSWERS_PER_LEVEL + 1))

\* Lines 49-51: a callback fired on every update
LevelChangeCallsAlways(previousLevel, settings) == <<settings.hskLevel>>

\* Lines 49-51 (part_004: 804-806): the calls of the registered level-change callback
LevelChangeCalls(previousLevel, settings) ==
  IF settings.hskLevel # previousLevel THEN <<settings.hskLevel>> ELSE <<>>

(***************************************************************************)
(* Questions and gates                                                     *)
(***************************************************************************)
\* WordManager.generateQuestion as the loops use it: a fresh question whose
\* correct lane is lanes[floor(random * 3)]
GenerateQuestion(id, lane) == [id |-> id, correctLane |-> lane]

CreateGate(question, t) ==
  [question |-> question, progress |-> 0, processed |-> FALSE, spawnTime |-> t]

LaneX(lane) ==
  CASE lane = "left" -> -LANE_WIDTH
    [] lane = "center" -> 0
    [] lane = "right" -> LANE_WIDTH

RemoveAt(s, i) == SubSeq(s, 1, i - 1) \o SubSeq(s, i + 1, Len(s))

\* progress = elapsed / (GATE_TRAVEL_TIME / gameSpeed), as a numerator over ProgressOne
GateProgress(elapsed, speed) == elapsed * speed
ProgressOne == 10 * GATE_TRAVEL_TIME
AtLeast(progress, percent, one) == progress * 100 >= percent * one

\* progress = Math.min(1, elapsed / (GATE_TRAVEL_TIME / gameSpeed)), over SceneProgressOne
SceneProgressOne == 10 * SCENE_GATE_TRAVEL_TIME
SceneGateProgress(elapsed, speed) == Min(SceneProgressOne, elapsed * speed)

\* The fields a frame's gate loop reads and writes, threaded through the loop.
LoopState ==
  [gates |-> gates, lives |-> lives, scoreSystem |-> scoreSystem,
   isGameOver |-> isGameOver, stats |-> stats, disposed |-> disposed,
   questionStartTime |-> questionStartTime, prompt |-> prompt,
   lastGateSpawnTime |-> lastGateSpawnTime, nextGateId |-> nextGateId,
   resolvedLog |-> resolvedLog, removedLog |-> removedLog,
   lastResolution |-> lastResolution, pausedAtSpawn |-> pausedAtSpawn,
   publishedAt |-> publishedAt, cues |-> <<>>,
   postGameOverOps |-> postGameOverOps]

\* The loop state written back to the variables at the end of a frame.
Commit(st) ==
  /\ gates' = st.gates /\ lives' = st.lives /\ scoreSystem' = st.scoreSystem
  /\ isGameOver' = st.isGameOver /\ stats' = st.stats /\ disposed' = st.disposed
  /\ questionStartTime' = st.questionStartTime /\ prompt' = st.prompt
  /\ lastGateSpawnTime' = st.lastGateSpawnTime /\ nextGateId' = st.nextGateId
  /\ resolvedLog' = st.resolvedLog /\ removedLog' = st.removedLog
  /\ lastResolution' = st.lastResolution /\ pausedAtSpawn' = st.pausedAtSpawn
  /\ publishedAt' = st.publishedAt /\ cuesNow' = st.cues
  /\ postGameOverOps' = st.postGameOverOps

\* soundManager.play(cue)
Play(st, cue) == [st EXCEPT !.cues = Append(@, cue)]

\* History: an operation of the pipeline performed after gameOver() was called
Note(st, op) ==
  IF st.stats # NoStats THEN [st EXCEPT !.postGameOverOps = @ \cup {op}] ELSE st

\* History: what processGateCollision saw and what calculateScore returned
Observe(st, gate, t, isCorrect, hskLevel, r) ==
  [Note(st, "resolve") EXCEPT
     !.resolvedLog = Append(@, gate.question.id),
     !.lastResolution =
        [gate |-> gate.question.id, at |-> t, correct |-> isCorrect,
         decisionTime |-> t - st.questionStartTime, level |-> hskLevel,
         prompt |-> st.prompt, points |-> r.result.totalPoints,
         streakBonus |-> r.result.streakBonus,
         speedBonus |-> r.result.speedBonus,
         published |-> st.publishedAt[gate.question.id],
         livesBefore |-> st.lives]]

\* WordManager.hasCustomWords
HasCustomWords == customWords > 0

\* Lines 865-873 with useCustomDeck taken from the constructor's flag
SnapshotByFlag(st, dist, hskLevel) ==
  [finalScore |-> st.scoreSystem.score,
   distance |-> dist \div 100,
   correctAnswers |-> st.scoreSystem.correctAnswers,
   totalAnswers |-> st.scoreSystem.totalAnswers,
   maxStreak |-> st.scoreSystem.maxStreak,
   highestLevel |-> hskLevel,
   useCustomDeck |-> useCustomDeck]

\* Lines 865-873: the GameStats of Game3D.gameOver
Snapshot(st, dist, hskLevel) ==
  [finalScore |-> st.scoreSystem.score,
   distance |-> dist \div 100,
   correctAnswers |-> st.scoreSystem.correctAnswers,
   totalAnswers |-> st.scoreSystem.totalAnswers,
   maxStreak |-> st.scoreSystem.maxStreak,
   highestLevel |-> hskLevel,
   useCustomDeck |-> HasCustomWords]

\* GameScene.ts lines 639-646: the GameStats of GameScene.gameOver
SceneSnapshot(st, dist, hskLevel) ==
  [finalScore |-> st.scoreSystem.score,
   distance |-> dist \div 100,
   correctAnswers |-> st.scoreSystem.correctAnswers,
   totalAnswers |-> st.scoreSystem.totalAnswers,
   maxStreak |-> st.scoreSystem.maxStreak,
   highestHSK |-> hskLevel]

(***************************************************************************)
(* Game3D                                                                  *)
(***************************************************************************)
\* Lines 861-873
GameOver(st, dist, hskLevel) ==
  [Play(st, "gameOver") EXCEPT !.isGameOver = TRUE, !.stats = Snapshot(st, dist, hskLevel)]

\* Lines 836-838 and 845-853: the cues of an answer
Announce(st, isCorrect) ==
  IF isCorrect
  THEN IF st.lastResolution.streakBonus > 0
       THEN Play(Play(st, "correct"), "streak")
       ELSE Play(st, "correct")
  ELSE Play(Play(st, "wrong"), "lifeLost")

\* Lines 835-859 with line 840 lacking `&& this.lives < 3`: the extra life is not capped
SettleLivesUncapped(st, isCorrect, dist, hskLevel) ==
  IF isCorrect
  THEN IF st.scoreSystem.correctAnswers % LIFE_EVERY = 0
       THEN [st EXCEPT !.lives = @ + 1]
       ELSE st
  ELSE IF st.lives - 1 <= 0
       THEN GameOver([st EXCEPT !.lives = @ - 1], dist, hskLevel)
       ELSE [st EXCEPT !.lives = @ - 1]

\* Lines 835-859 with line 855 testing `this.lives < 0`: game over one life late
SettleLivesLate(st, isCorrect, dist, hskLevel) ==
  IF isCorrect
  THEN IF st.scoreSystem.correctAnswers % LIFE_EVERY = 0 /\ st.lives < INITIAL_LIVES
       THEN [st EXCEPT !.lives = @ + 1]
       ELSE st
  ELSE IF st.lives - 1 < 0
       THEN GameOver([st EXCEPT !.lives = @ - 1], dist, hskLevel)
       ELSE [st EXCEPT !.lives = @ - 1]

\* Lines 835-859: the lives update that follows calculateScore
SettleLives(st, isCorrect, dist, hskLevel) ==
  IF isCorrect
  THEN IF st.scoreSystem.correctAnswers % LIFE_EVERY = 0 /\ st.lives < INITIAL_LIVES
       THEN [st EXCEPT !.lives = @ + 1]
       ELSE st
  ELSE IF st.lives - 1 <= 0
       THEN GameOver([st EXCEPT !.lives = @ - 1], dist, hskLevel)
       ELSE [st EXCEPT !.lives = @ - 1]

\* Lines 825-833: the score of this answer
Scored(st, gate, t, isCorrect, hskLevel, r) ==
  [Observe(st, gate, t, isCorrect, hskLevel, r) EXCEPT !.scoreSystem = r.sys]

\* Lines 825-859
ProcessGateCollision(st, gate, t, dist, hskLevel) ==
  SettleLives(
    Announce(
      Scored(st, gate, t, currentLane = gate.question.correctLane, hskLevel,
             CalculateScore(st.scoreSystem, currentLane = gate.question.correctLane,
                            t - st.questionStartTime, hskLevel)),
      currentLane = gate.question.correctLane),
    currentLane = gate.question.correctLane, dist, hskLevel)

\* Lines 961-963
Advance(st, i, t, speed) ==
  [Note(st, "advance") EXCEPT
     !.gates[i].progress = GateProgress(t - st.gates[i].spawnTime, speed)]

\* Lines 977-981 without line 980: the gate is never marked as processed
CollideUnmarked(st, i, t, dist, hskLevel) ==
  IF AtLeast(st.gates[i].progress, COLLISION_PROGRESS, ProgressOne)
     /\ ~st.gates[i].processed
  THEN ProcessGateCollision(st, st.gates[i], t, dist, hskLevel)
  ELSE st

\* Lines 977-981
Collide(st, i, t, dist, hskLevel) ==
  IF AtLeast(st.gates[i].progress, COLLISION_PROGRESS, ProgressOne)
     /\ ~st.gates[i].processed
  THEN [ProcessGateCollision(st, st.gates[i], t, dist, hskLevel)
          EXCEPT !.gates[i].processed = TRUE]
  ELSE st

\* Lines 995-1000 left out: a retirement that publishes nothing
PromoteNothing(st, t) == st

\* Lines 995-1000: the prompt of the gate now first in the list
Promote(st, t) ==
  IF Len(st.gates) > 0
  THEN [st EXCEPT !.questionStartTime = t, !.prompt = st.gates[1].question.id,
                  !.publishedAt[st.gates[1].question.id] = t]
  ELSE st

\* Lines 983-1001 left out: no gate leaves the list
RetireNothing(st, i, t) == st

\* Lines 983-1001
Retire(st, i, t) ==
  IF AtLeast(st.gates[i].progress, RETIRE_PROGRESS, ProgressOne)
  THEN Promote([Note(st, "retire") EXCEPT
                  !.gates = RemoveAt(@, i),
                  !.removedLog = Append(@, st.gates[i].question.id)], t)
  ELSE st

\* Lines 959-1002: the gate loop of animate(), from the last gate down to the first
\* (an iteration splices at most index i, so i stays within the list; reading
\* st.gates first completes each iteration's state before the next one starts)
RECURSIVE GateLoop(_, _, _, _, _, _)
GateLoop(st, i, t, speed, dist, hskLevel) ==
  IF i = 0 \/ i > Len(st.gates) THEN st
  ELSE GateLoop(Retire(Collide(Advance(st, i, t, speed), i, t, dist, hskLevel), i, t),
                i - 1, t, speed, dist, hskLevel)

\* Lines 570-582
SpawnGate(st, t, lane) ==
  [Note(st, "spawn") EXCEPT
     !.questionStartTime = IF Len(st.gates) = 0 THEN t ELSE @,
     !.prompt = IF Len(st.gates) = 0 THEN st.nextGateId + 1 ELSE @,
     !.gates = Append(@, CreateGate(GenerateQuestion(st.nextGateId + 1, lane), t)),
     !.lastGateSpawnTime = t,
     !.nextGateId = @ + 1,
     !.pausedAtSpawn = Append(@, pausedTotal),
     !.publishedAt = Append(@, IF Len(st.gates) = 0 THEN t ELSE -1)]

\* Lines 1004-1008 without the spacing test
SpawnIfDueAlways(st, t, speed, lane) == SpawnGate(st, t, lane)

\* Lines 1004-1008 with the spacing test made against GATE_TRAVEL_TIME
SpawnIfDueTravel(st, t, speed, lane) ==
  IF Len(st.gates) = 0 \/ (t - st.lastGateSpawnTime) * speed > GATE_TRAVEL_TIME * 10
  THEN SpawnGate(st, t, lane)
  ELSE st

\* Lines 1004-1008
SpawnIfDue(st, t, speed, lane) ==
  IF Len(st.gates) = 0 \/ (t - st.lastGateSpawnTime) * speed > GATE_SPACING_TIME * 10
  THEN SpawnGate(st, t, lane)
  ELSE st

\* Lines 943-952: the player eases towards targetX; the lock clears on arrival
MovePlayer(delta) ==
  IF targetX - playerX # 0
  THEN /\ playerX' = Recorded(playerX + ((targetX - playerX) * MOVE_GAIN * delta) \div 1000)
       /\ isMoving' = isMoving
  ELSE /\ playerX' = targetX
       /\ isMoving' = FALSE

\* Lines 90-93: the level-change callback, run by difficultySystem.update when the
\* level it resolves differs from the previous one
Started(settings) ==
  IF settings.hskLevel # difficultySystem.hskLevel
  THEN Play(LoopState, "levelUp")
  ELSE LoopState

\* Lines 929-1008 of an unpaused frame at time t, delta ms after the clock's last read
RunFrame(t, delta, settings, lane) ==
  /\ clockRunning' = TRUE /\ clockOldTime' = t
  /\ lastTick' = t
  /\ difficultySystem' = settings
  /\ gameSpeed' = settings.speedMultiplier
  /\ distance' = distance + settings.speedMultiplier * delta
  /\ MovePlayer(delta)
  /\ Commit(SpawnIfDue(
              GateLoop(Started(settings), Len(gates), t, settings.speedMultiplier,
                       distance + settings.speedMultiplier * delta, settings.hskLevel),
              t, settings.speedMultiplier, lane))

\* Lines 919-1008: one requestAnimationFrame callback, d ms after the previous one;
\* `lanes` are the lanes generateQuestion may pick for a gate spawned by it
AnimateWith(d, limit, lanes) ==
  /\ engine = "Game3D" /\ ~disposed
  /\ ~isGameOver                       \* `if (this.isGameOver) return`: no frame is requested again
  /\ now + d <= limit
  /\ now' = now + d
  /\ lastInput' = NoInput
  /\ IF isPaused
     THEN /\ pausedTotal' = pausedTotal + d
          /\ cuesNow' = <<>>
          /\ UNCHANGED <<engine, lastCall, lastUpdate, wordManager, lastQuestion, deckStore, lastImport, useCustomDeck, customWords, clockRunning, clockOldTime, currentLane, targetX, playerX,
                         isMoving, tweenStart, scoreSystem, difficultySystem, distance,
                         lives, gameSpeed, gates, lastGateSpawnTime, questionStartTime,
                         prompt, isPaused, isGameOver, stats, disposed, lastTick,
                         nextGateId, resolvedLog, removedLog, lastResolution,
                         pausedAtSpawn, publishedAt, postGameOverOps>>
     ELSE /\ \E lane \in lanes :
               \* THREE.Clock.getDelta() is 0 on the call that starts the clock
               RunFrame(now + d, IF clockRunning THEN now + d - clockOldTime ELSE 0,
                        DifficultyUpdate(difficultySystem, scoreSystem.correctAnswers),
                        lane)
          /\ UNCHANGED <<engine, lastCall, lastUpdate, wordManager, lastQuestion, deckStore, lastImport, useCustomDeck, customWords, currentLane, targetX, tweenStart, isPaused, pausedTotal>>

Animate(d, limit) == AnimateWith(d, limit, Lanes)

\* Lines 546-564 with the whoosh played before the guard of line 547
MoveToLaneLoud(lane) ==
  /\ cuesNow' = <<"whoosh">>
  /\ IF isMoving \/ isPaused
     THEN UNCHANGED <<currentLane, isMoving, targetX>>
     ELSE /\ currentLane' = lane
          /\ isMoving' = TRUE
          /\ targetX' = LaneX(lane)

\* Lines 546-564 without line 547: no movement lock
MoveToLaneUnlocked(lane) ==
  /\ currentLane' = lane
  /\ isMoving' = TRUE
  /\ cuesNow' = <<"whoosh">>
  /\ targetX' = LaneX(lane)

\* Lines 546-564
MoveToLane(lane) ==
  IF isMoving \/ isPaused
  THEN /\ UNCHANGED <<currentLane, isMoving, targetX>>
       /\ cuesNow' = <<>>
  ELSE /\ currentLane' = lane
       /\ isMoving' = TRUE
       /\ cuesNow' = <<"whoosh">>
       /\ targetX' = LaneX(lane)

\* What an input handler met: the state it ran in, for the claims about inputs
Met(kind, lane, reached) ==
  [kind |-> kind, lane |-> lane, reached |-> reached, lane0 |-> currentLane,
   moving0 |-> isMoving, paused0 |-> isPaused, over0 |-> isGameOver]

\* Lines 494-544: a lane key or a swipe
LaneInput(lane) ==
  /\ engine = "Game3D" /\ ~disposed
  /\ IF isPaused \/ isGameOver
     THEN /\ UNCHANGED <<currentLane, isMoving, targetX>>
          /\ cuesNow' = <<>>
     ELSE MoveToLane(lane)
  /\ lastInput' = Met("lane", lane, ~(isPaused \/ isGameOver))
  /\ UNCHANGED <<engine, lastCall, lastUpdate, wordManager, lastQuestion, deckStore, lastImport, useCustomDeck, customWords, now, clockRunning, clockOldTime, playerX, tweenStart, scoreSystem,
                 difficultySystem, distance, lives, gameSpeed, gates, lastGateSpawnTime,
                 questionStartTime, prompt, isPaused, isGameOver, stats, disposed,
                 lastTick, nextGateId, resolvedLog, removedLog, lastResolution, pausedTotal,
                 pausedAtSpawn, publishedAt, postGameOverOps>>

\* Lines 757-765, reached from Escape / P (lines 496-499) and from the resume button
TogglePause ==
  /\ engine = "Game3D" /\ ~disposed
  /\ isPaused' = ~isPaused
  /\ IF isPaused      \* resuming: this.clock.start()
     THEN clockRunning' = TRUE /\ clockOldTime' = now
     ELSE UNCHANGED <<clockRunning, clockOldTime>>
  /\ lastInput' = Met("pause", "none", TRUE)
  /\ cuesNow' = <<>>
  /\ UNCHANGED <<engine, lastCall, lastUpdate, wordManager, lastQuestion, deckStore, lastImport, useCustomDeck, customWords, now, currentLane, targetX, playerX, isMoving, tweenStart,
                 scoreSystem, difficultySystem, distance, lives, gameSpeed, gates,
                 lastGateSpawnTime, questionStartTime, prompt, isGameOver, stats, disposed,
                 lastTick, nextGateId, resolvedLog, removedLog, lastResolution, pausedTotal,
                 pausedAtSpawn, publishedAt, postGameOverOps>>

\* Lines 767-771 (quit, offered on the pause overlay) and lines 908-916 (retry / menu,
\* offered on the game-over screen): dispose() and reload
Quit ==
  /\ engine = "Game3D" /\ ~disposed
  /\ isPaused \/ stats # NoStats
  /\ isGameOver' = TRUE
  /\ disposed' = TRUE
  /\ lastInput' = NoInput
  /\ cuesNow' = <<>>
  /\ UNCHANGED <<engine, lastCall, lastUpdate, wordManager, lastQuestion, deckStore, lastImport, useCustomDeck, customWords, now, clockRunning, clockOldTime, currentLane, targetX, playerX,
                 isMoving, tweenStart, scoreSystem, difficultySystem, distance, lives,
                 gameSpeed, gates, lastGateSpawnTime, questionStartTime, prompt, isPaused,
                 stats, lastTick, nextGateId, resolvedLog, removedLog, lastResolution, pausedTotal,
                 pausedAtSpawn, publishedAt, postGameOverOps>>

(***************************************************************************)
(* GameScene (src/scenes/GameScene.ts)                                     *)
(***************************************************************************)
\* Lines 636-649: the snapshot, then scene.start('GameOverScene'), which shuts this
\* scene down once the running update() has returned
SceneGameOver(st, dist, hskLevel) ==
  [Play(st, "gameOver") EXCEPT !.disposed = TRUE,
                                !.stats = SceneSnapshot(st, dist, hskLevel)]

\* Lines 545-563: the lives update that follows calculateScore
SceneSettleLives(st, isCorrect, dist, hskLevel) ==
  IF isCorrect
  THEN IF st.scoreSystem.correctAnswers % LIFE_EVERY = 0 /\ st.lives < INITIAL_LIVES
       THEN [st EXCEPT !.lives = @ + 1]
       ELSE st
  ELSE IF st.lives - 1 <= 0
       THEN SceneGameOver([st EXCEPT !.lives = @ - 1], dist, hskLevel)
       ELSE [st EXCEPT !.lives = @ - 1]

\* Lines 534-564
SceneProcessGateCollision(st, gate, t, dist, hskLevel) ==
  SceneSettleLives(
    Announce(
      Scored(st, gate, t, currentLane = gate.question.correctLane, hskLevel,
             CalculateScore(st.scoreSystem, currentLane = gate.question.correctLane,
                            t - st.questionStartTime, hskLevel)),
      currentLane = gate.question.correctLane),
    currentLane = gate.question.correctLane, dist, hskLevel)

\* Lines 491-493
SceneAdvance(st, i, t, speed) ==
  [Note(st, "advance") EXCEPT
     !.gates[i].progress = SceneGateProgress(t - st.gates[i].spawnTime, speed)]

\* Lines 497-501
SceneCollide(st, i, t, dist, hskLevel) ==
  IF AtLeast(st.gates[i].progress, SCENE_COLLISION_PROGRESS, SceneProgressOne)
     /\ ~st.gates[i].processed
  THEN [SceneProcessGateCollision(st, st.gates[i], t, dist, hskLevel)
          EXCEPT !.gates[i].processed = TRUE]
  ELSE st

\* Lines 503-513
SceneRetire(st, i, t) ==
  IF AtLeast(st.gates[i].progress, SCENE_RETIRE_PROGRESS, SceneProgressOne)
  THEN Promote([Note(st, "retire") EXCEPT
                  !.gates = RemoveAt(@, i),
                  !.removedLog = Append(@, st.gates[i].question.id)], t)
  ELSE st

\* Lines 488-514: the gate loop of update()
RECURSIVE SceneGateLoop(_, _, _, _, _, _)
SceneGateLoop(st, i, t, speed, dist, hskLevel) ==
  IF i = 0 \/ i > Len(st.gates) THEN st
  ELSE SceneGateLoop(
         SceneRetire(SceneCollide(SceneAdvance(st, i, t, speed), i, t, dist, hskLevel), i, t),
         i - 1, t, speed, dist, hskLevel)

\* Lines 363-382
SceneSpawnGate(st, t, lane) ==
  [Note(st, "spawn") EXCEPT
     !.questionStartTime = IF Len(st.gates) = 0 THEN t ELSE @,
     !.prompt = IF Len(st.gates) = 0 THEN st.nextGateId + 1 ELSE @,
     !.gates = Append(@, CreateGate(GenerateQuestion(st.nextGateId + 1, lane), t)),
     !.lastGateSpawnTime = t,
     !.nextGateId = @ + 1,
     !.pausedAtSpawn = Append(@, pausedTotal),
     !.publishedAt = Append(@, IF Len(st.gates) = 0 THEN t ELSE -1)]

\* Lines 516-520
SceneSpawnIfDue(st, t, speed, lane) ==
  IF Len(st.gates) = 0
     \/ (t - st.lastGateSpawnTime) * speed > SCENE_GATE_SPACING_TIME * 10
  THEN SceneSpawnGate(st, t, lane)
  ELSE st

\* Lines 354-360: the lane tween, stepped by the scene's tween manager before
\* update() runs; onComplete clears the lock
StepTween(t) ==
  isMoving' = IF isMoving /\ t - tweenStart >= SCENE_TWEEN_DURATION THEN FALSE ELSE isMoving

\* Lines 479-532 at time t, d ms after the previous step
SceneRunFrame(t, d, settings, lane) ==
  /\ StepTween(t)
  /\ lastTick' = t
  /\ difficultySystem' = settings
  /\ gameSpeed' = settings.speedMultiplier
  /\ distance' = distance + settings.speedMultiplier * d
  /\ Commit(SceneSpawnIfDue(
              SceneGateLoop(Started(settings), Len(gates), t, settings.speedMultiplier,
                            distance + settings.speedMultiplier * d, settings.hskLevel),
              t, settings.speedMultiplier, lane))

\* One Phaser step, d ms after the previous one
UpdateWith(d, limit, lanes) ==
  /\ engine = "GameScene" /\ ~disposed
  /\ now + d <= limit
  /\ now' = now + d
  /\ lastInput' = NoInput
  /\ \E lane \in lanes :
        SceneRunFrame(now + d, d,
                      DifficultyUpdate(difficultySystem, scoreSystem.correctAnswers), lane)
  /\ UNCHANGED <<engine, lastCall, lastUpdate, wordManager, lastQuestion, deckStore, lastImport, useCustomDeck, customWords, clockRunning, clockOldTime, currentLane, targetX, playerX,
                 tweenStart, isPaused, pausedTotal>>

Update(d, limit) == UpdateWith(d, limit, Lanes)

\* Lines 346-361
SceneMoveToLane(lane) ==
  IF isMoving
  THEN /\ UNCHANGED <<currentLane, isMoving, tweenStart>>
       /\ cuesNow' = <<>>
  ELSE /\ currentLane' = lane
       /\ isMoving' = TRUE
       /\ cuesNow' = <<"whoosh">>
       /\ tweenStart' = now

\* Lines 316-344: a lane key or a swipe
SceneLaneInput(lane) ==
  /\ engine = "GameScene" /\ ~disposed
  /\ SceneMoveToLane(lane)
  /\ lastInput' = Met("lane", lane, TRUE)
  /\ UNCHANGED <<engine, lastCall, lastUpdate, wordManager, lastQuestion, deckStore, lastImport, useCustomDeck, customWords, now, clockRunning, clockOldTime, targetX, playerX, scoreSystem,
                 difficultySystem, distance, lives, gameSpeed, gates, lastGateSpawnTime,
                 questionStartTime, prompt, isPaused, isGameOver, stats, disposed,
                 lastTick, nextGateId, resolvedLog, removedLog, lastResolution, pausedTotal,
                 pausedAtSpawn, publishedAt, postGameOverOps>>

(***************************************************************************)
(* Specifications                                                          *)
(***************************************************************************)
\* The state when init() / create() has returned: the first gate is spawned and,
\* in Game3D, the first animate() call has started the clock on an idle frame.
InitSession ==
  /\ engine \in Engines
  /\ now = 0
  /\ clockRunning = (engine = "Game3D") /\ clockOldTime = 0
  /\ currentLane = "center" /\ targetX = 0 /\ playerX = 0 /\ isMoving = FALSE
  /\ tweenStart = 0
  /\ scoreSystem = NewScoreSystem
  /\ difficultySystem = NewDifficultySystem
  /\ distance = 0 /\ lives = INITIAL_LIVES /\ gameSpeed = 10
  /\ \E lane \in Lanes : gates = <<CreateGate(GenerateQuestion(1, lane), 0)>>
  /\ lastGateSpawnTime = 0 /\ questionStartTime = 0
  /\ prompt = 1
  /\ isPaused = FALSE /\ isGameOver = FALSE
  /\ stats = NoStats
  /\ disposed = FALSE
  /\ lastTick = 0
  /\ nextGateId = 1
  /\ resolvedLog = <<>> /\ removedLog = <<>>
  /\ lastResolution = NoResolution
  /\ pausedTotal = 0 /\ pausedAtSpawn = <<0>>
  /\ publishedAt = <<0>>
  /\ postGameOverOps = {}
  /\ lastInput = NoInput
  /\ cuesNow = <<>>
  /\ lastCall = NoCall
  /\ lastUpdate = NoUpdate
  /\ wordManager = NewWordManager
  /\ lastQuestion = NoQuestion
  /\ deckStore = NewDeckStore
  /\ lastImport = NoImport

\* Lines 73-96: the constructor called with useCustomDeck = flag while the stored
\* deck holds `stored` words (0: no stored deck, or an empty one)
Constructed(flag, stored) ==
  /\ InitSession
  /\ useCustomDeck = flag
  /\ customWords = IF flag /\ stored > 0 THEN stored ELSE 0

\* A session on the built-in words (useCustomDeck defaults to false)
Init == Constructed(FALSE, 0)

\* A session with any deck configuration; GameScene has no custom deck
InitAny ==
  \E flag \in BOOLEAN, stored \in {0, DeckSize} :
     /\ Constructed(flag, stored)
     /\ engine = "GameScene" => ~flag

Frame(d) == Animate(d, MaxTime)
SceneFrame(d) == Update(d, MaxTime)
LongFrame(d) == Animate(d, MaxTimeLong)
LongSceneFrame(d) == Update(d, MaxTimeLong)

Next ==
  \/ \E d \in FrameDeltas : Frame(d)
  \/ \E d \in FrameDeltas : SceneFrame(d)
  \/ TogglePause

Spec == Init /\ [][Next]_vars

NextLong ==
  \/ \E d \in LongFrameDeltas : LongFrame(d)
  \/ \E d \in LongFrameDeltas : LongSceneFrame(d)
  \/ TogglePause

SpecLong == Init /\ [][NextLong]_vars

OverFrame(d) == Animate(d, MaxTimeOver)
OverSceneFrame(d) == Update(d, MaxTimeOver)

NextOver ==
  \/ \E d \in LongFrameDeltas : OverFrame(d)
  \/ \E d \in LongFrameDeltas : OverSceneFrame(d)
  \/ \E lane \in Lanes : LaneInput(lane)
  \/ \E lane \in Lanes : SceneLaneInput(lane)
  \/ TogglePause
  \/ Quit

SpecOver == InitAny /\ [][NextOver]_vars

\* SpecLevel: one frame per gate, every question with its correct word in the
\* centre lane, and the lane inputs of Game3D, over a Game3D session long enough
\* for the second level (the GameScene session, whose gate list only grows, runs
\* to the horizon of SpecLong).
\* generateQuestion always picks the centre lane
CentreOnly == {"center"}

LevelFrame(d) == AnimateWith(d, MaxTimeLevel, CentreOnly)
LevelSceneFrame(d) == UpdateWith(d, MaxTimeLong, CentreOnly)

NextLevel ==
  \/ \E d \in LongFrameDeltas : LevelFrame(d)
  \/ \E d \in LongFrameDeltas : LevelSceneFrame(d)
  \/ \E lane \in Lanes : LaneInput(lane)

SpecLevel == Init /\ [][NextLevel]_vars

(***************************************************************************)
(* ScoreSystem called directly: calculateScore applied to arguments drawn  *)
(* from bounded sets, starting from a fresh ScoreSystem.                   *)
(***************************************************************************)
DecisionTimes == {999, 1000}
Levels == {DIFFICULTY_THRESHOLDS[i].hskLevel : i \in 1..Len(DIFFICULTY_THRESHOLDS)}

\* The level passed is difficultySystem's, which update() never lowers.
\* fastAtOne: every call so far was correct, under the speed-bonus limit, at level 1
Answer(correct, decisionTimeMs, hskLevel) ==
  /\ scoreSystem.totalAnswers < MaxAnswers
  /\ hskLevel >= lastCall.hskLevel
  /\ ~correct => scoreSystem.totalAnswers - scoreSystem.correctAnswers < MaxWrong
  /\ scoreSystem' = CalculateScore(scoreSystem, correct, decisionTimeMs, hskLevel).sys
  /\ lastCall' =
       [correct |-> correct, decisionTimeMs |-> decisionTimeMs, hskLevel |-> hskLevel,
        before |-> scoreSystem,
        result |-> CalculateScore(scoreSystem, correct, decisionTimeMs, hskLevel).result,
        fastAtOne |-> /\ lastCall = NoCall \/ lastCall.fastAtOne
                      /\ correct /\ decisionTimeMs < SPEED_BONUS_LIMIT /\ hskLevel = 1]
  /\ UNCHANGED <<engine, now, clockRunning, clockOldTime, currentLane, targetX, playerX,
                 isMoving, tweenStart, difficultySystem, distance, lives, gameSpeed,
                 gates, lastGateSpawnTime, questionStartTime, prompt, isPaused,
                 isGameOver, stats, disposed, useCustomDeck, customWords, lastTick,
                 nextGateId, resolvedLog, removedLog, lastResolution, pausedTotal,
                 pausedAtSpawn, publishedAt, postGameOverOps, lastInput, cuesNow,
                 lastUpdate, wordManager, lastQuestion,
                 deckStore, lastImport>>

InitScore == Init /\ engine = "Game3D" /\ gates[1].question.correctLane = "center"

NextScore ==
  \E correct \in BOOLEAN, decisionTimeMs \in DecisionTimes, hskLevel \in Levels :
    Answer(correct, decisionTimeMs, hskLevel)

SpecScore == InitScore /\ [][NextScore]_vars


(***************************************************************************)
(* WordManager (src/systems/WordManager.ts)                                *)
(*                                                                         *)
(* A Word is [target, category]; pronunciation and english are never read  *)
(* by WordManager.  The level tables (data/hsk1..hsk6) hold WordsPerLevel  *)
(* words each, all of different text, spread over NumCategories categories.*)
(***************************************************************************)
MAX_RECENT_WORDS == 20

Word(n) == [target |-> n, category |-> n % NumCategories]

\* getWordsForLevel: chineseWordsByLevel[level] || []
GetWordsForLevel(level) ==
  IF level \in 1..MAX_LEVEL
  THEN [i \in 1..WordsPerLevel |-> Word((level - 1) * WordsPerLevel + i)]
  ELSE <<>>

\* getAvailableWords: [...currentWords, ...prevWords]
GetAvailableWords(hskLevel) ==
  GetWordsForLevel(hskLevel) \o (IF hskLevel > 1 THEN GetWordsForLevel(hskLevel - 1) ELSE <<>>)

\* Line 30-32 reading the level tables even when a custom deck is set
WordsOfLevelOnly(wm, hskLevel) == GetAvailableWords(hskLevel)

\* Lines 30-32: the candidate pool
WordsOf(wm, hskLevel) ==
  IF Len(wm.customWords) > 0 THEN wm.customWords ELSE GetAvailableWords(hskLevel)

\* distractors[k] past the end of the array, and availableWords[NaN]
UndefinedWord == [target |-> -1, category |-> -1]

\* Math.random(): the k-th draw of a call whose first draw is seed / RandomDen;
\* the draws of one call step through the fractions by RandomStride.
Draw(seed, k) == (seed + k * RandomStride) % RandomDen
\* Math.floor(Math.random() * n)
Pick(seed, k, n) == (Draw(seed, k) * n) \div RandomDen

Swap(arr, i, j) == [arr EXCEPT ![i] = arr[j], ![j] = arr[i]]

\* shuffle, lines 106-113: i from length - 1 down to 1 (0-based), one draw each
RECURSIVE ShuffleFrom(_, _, _, _)
ShuffleFrom(arr, i, seed, k) ==
  IF i <= 0 THEN arr
  ELSE ShuffleFrom(Swap(arr, i + 1, Pick(seed, k, i + 1) + 1), i - 1, seed, k + 1)

Shuffle(arr, seed, k) == ShuffleFrom(arr, Len(arr) - 1, seed, k)
ShuffleDraws(arr) == IF Len(arr) > 1 THEN Len(arr) - 1 ELSE 0

HasTarget(ws, target) == \E i \in 1..Len(ws) : ws[i].target = target

\* Lines 88-93 and 96-101: push words of `from` until two distractors are held
RECURSIVE Fill(_, _, _)
Fill(distractors, from, i) ==
  IF i > Len(from) \/ Len(distractors) >= 2 THEN distractors
  ELSE Fill(IF HasTarget(distractors, from[i].target) THEN distractors
            ELSE Append(distractors, from[i]),
            from, i + 1)

SameCategoryWords(correctWord, pool) ==
  SelectSeq(pool, LAMBDA w : w.category = correctWord.category /\ w.target # correctWord.target)
OtherWords(correctWord, pool) ==
  SelectSeq(pool, LAMBDA w : w.target # correctWord.target)

\* getDistractors without lines 87-93: distractors taken from the whole pool only
GetDistractorsAnyCategory(correctWord, pool, seed, k) ==
  Fill(<<>>, Shuffle(OtherWords(correctWord, pool), seed,
                     k + ShuffleDraws(SameCategoryWords(correctWord, pool))), 1)

\* getDistractors with line 85 shuffling the unfiltered pool
GetDistractorsWholePool(correctWord, pool, seed, k) ==
  Fill(Fill(<<>>, Shuffle(SameCategoryWords(correctWord, pool), seed, k), 1),
       Shuffle(pool, seed, k + ShuffleDraws(SameCategoryWords(correctWord, pool))), 1)

\* getDistractors, lines 77-104
GetDistractors(correctWord, pool, seed, k) ==
  Fill(Fill(<<>>, Shuffle(SameCategoryWords(correctWord, pool), seed, k), 1),
       Shuffle(OtherWords(correctWord, pool), seed,
               k + ShuffleDraws(SameCategoryWords(correctWord, pool))), 1)

\* Lines 35-37: the correct word; the second draw is made only when no word is available
Includes(arr, x) == \E i \in 1..Len(arr) : arr[i] = x
AvailableWords(wm, words) == SelectSeq(words, LAMBDA w : ~Includes(wm.recentWords, w.target))
CorrectWordAnywhere(wm, words, seed) == words[Pick(seed, 0, Len(words)) + 1]
CorrectWord(wm, words, seed) ==
  IF Len(AvailableWords(wm, words)) > 0
  THEN AvailableWords(wm, words)[Pick(seed, 0, Len(AvailableWords(wm, words))) + 1]
  ELSE words[Pick(seed, 1, Len(words)) + 1]
CorrectDraws(wm, words) == IF Len(AvailableWords(wm, words)) > 0 THEN 1 ELSE 2

\* Lines 40-43 with the length test as `>=`: the buffer holds 19 entries
TrackedShort(recentWords, target) ==
  IF Len(recentWords) + 1 >= MAX_RECENT_WORDS
  THEN Tail(Append(recentWords, target)) ELSE Append(recentWords, target)

\* Lines 40-43: push, then shift when longer than maxRecentWords
Tracked(recentWords, target) ==
  IF Len(recentWords) + 1 > MAX_RECENT_WORDS
  THEN Tail(Append(recentWords, target)) ELSE Append(recentWords, target)

LaneSeq == <<"left", "center", "right">>

OptionWord(distractors, k) == IF k <= Len(distractors) THEN distractors[k] ELSE UndefinedWord

\* Lines 53-62 with the correct word pushed at lane 0 whatever correctLaneIndex is
OptionsCorrectFirst(correctWord, distractors, correctLaneIndex) ==
  [i \in 1..3 |->
     [lane |-> LaneSeq[i],
      word |-> IF i = 1 THEN correctWord ELSE OptionWord(distractors, i - 1)]]

\* Lines 53-62: three options, the distractors in order around the correct word
Options(correctWord, distractors, correctLaneIndex) ==
  [i \in 1..3 |->
     [lane |-> LaneSeq[i],
      word |-> IF i - 1 = correctLaneIndex THEN correctWord
               ELSE OptionWord(distractors, IF i - 1 < correctLaneIndex THEN i ELSE i - 1)]]

\* generateQuestion, lines 29-68, on a non-empty pool: the WordQuestion returned
WordQuestionOf(wm, hskLevel, seed) ==
  LET words == WordsOf(wm, hskLevel)
      correctWord == CorrectWord(wm, words, seed)
      k1 == CorrectDraws(wm, words)
      distractors == GetDistractors(correctWord, words, seed, k1)
      k2 == k1 + ShuffleDraws(SameCategoryWords(correctWord, words))
              + ShuffleDraws(OtherWords(correctWord, words))
      correctLaneIndex == Pick(seed, k2, 3)
  IN [correctWord |-> correctWord,
      options |-> Options(correctWord, distractors, correctLaneIndex),
      correctLane |-> LaneSeq[correctLaneIndex + 1],
      mode |-> IF Draw(seed, k2 + 1) * 2 < RandomDen
               THEN "english-to-target" ELSE "target-to-english"]

(***************************************************************************)
(* WordManager called directly: setCustomWords once, as the constructors   *)
(* do, then generateQuestion at levels that never decrease.                *)
(***************************************************************************)
\* Custom decks as loadCustomDeck can return them: one word, two words, two
\* texts in three entries, three words of which two share a category, and a
\* deck larger than the recency buffer.
CustomDecks ==
  { <<Word(1)>>,
    <<Word(1), Word(2)>>,
    <<Word(1), [target |-> 1, category |-> 2], Word(2)>>,
    <<Word(1), Word(2), Word(4)>>,
    [i \in 1..(MAX_RECENT_WORDS + 2) |-> Word(i)] }

QuestionLevels == 1..3
Seeds == {0, RandomDen \div 2 - 1, RandomDen - 1}

Targets(ws) == {ws[i].target : i \in 1..Len(ws)}

\* setCustomWords(words), lines 21-23, before the first question
SetCustomWords(words) ==
  /\ lastQuestion = NoQuestion
  /\ wordManager.customWords = <<>>
  /\ wordManager' = [wordManager EXCEPT !.customWords = words]
  /\ UNCHANGED <<engine, now, clockRunning, clockOldTime, currentLane, targetX, playerX,
                 isMoving, tweenStart, scoreSystem, difficultySystem, distance, lives,
                 gameSpeed, gates, lastGateSpawnTime, questionStartTime, prompt, isPaused,
                 isGameOver, stats, disposed, useCustomDeck, customWords, lastTick,
                 nextGateId, resolvedLog, removedLog, lastResolution, pausedTotal,
                 pausedAtSpawn, publishedAt, postGameOverOps, lastInput, cuesNow,
                 lastCall, lastUpdate, lastQuestion,
                 deckStore, lastImport>>

\* One call of generateQuestion(hskLevel) whose first Math.random() is seed / RandomDen.
\* The first WarmUp calls of a run draw 0 at level 1; the later ones are free.
\* History: the pool read, the correct texts so far, the smallest number of
\* different texts in any pool so far, the buffer before the call.
Generated(hskLevel, q) ==
  /\ wordManager' = [wordManager EXCEPT !.recentWords = Tracked(@, q.correctWord.target)]
  /\ lastQuestion' =
       [hskLevel |-> hskLevel,
        question |-> q,
        pool |-> WordsOf(wordManager, hskLevel),
        recentBefore |-> wordManager.recentWords,
        generated |-> Append(lastQuestion.generated, q.correctWord.target),
        fewestTexts |-> Min(lastQuestion.fewestTexts,
                            Cardinality(Targets(WordsOf(wordManager, hskLevel))))]

GenerateCall(hskLevel, seed) ==
  /\ Len(lastQuestion.generated) < WarmUp + MaxQuestions
  /\ hskLevel >= lastQuestion.hskLevel
  /\ Len(lastQuestion.generated) < WarmUp => hskLevel = 1 /\ seed = 0
  /\ Generated(hskLevel, WordQuestionOf(wordManager, hskLevel, seed))
  /\ UNCHANGED <<engine, now, clockRunning, clockOldTime, currentLane, targetX, playerX,
                 isMoving, tweenStart, scoreSystem, difficultySystem, distance, lives,
                 gameSpeed, gates, lastGateSpawnTime, questionStartTime, prompt, isPaused,
                 isGameOver, stats, disposed, useCustomDeck, customWords, lastTick,
                 nextGateId, resolvedLog, removedLog, lastResolution, pausedTotal,
                 pausedAtSpawn, publishedAt, postGameOverOps, lastInput, cuesNow,
                 lastCall, lastUpdate,
                 deckStore, lastImport>>

NextWords ==
  \/ \E words \in CustomDecks : SetCustomWords(words)
  \/ \E hskLevel \in QuestionLevels, seed \in Seeds : GenerateCall(hskLevel, seed)

SpecWords == InitScore /\ [][NextWords]_vars

(***************************************************************************)
(* csvParser (utils/csvParser; lines 329-470 of game3d/index.ts)           *)
(*                                                                         *)
(* A line is a sequence of symbols: " " is white space, "," and ";" are    *)
(* delimiters (the tab behaves as they do), "\"" is the quote, and every   *)
(* other symbol is a run of lower-case text; the header keywords stand for *)
(* text that contains them.  A content is the sequence of its lines.       *)
(***************************************************************************)
SetMin(S) == CHOOSE x \in S : \A y \in S : x <= y
SetMax(S) == CHOOSE x \in S : \A y \in S : x >= y

Inked(str) == {i \in 1..Len(str) : str[i] # " "}
\* String.prototype.trimStart, trimEnd and trim on one line or field
TrimEnds(str, atStart, atEnd) ==
  IF Inked(str) = {} THEN (IF atStart \/ atEnd THEN <<>> ELSE str)
  ELSE SubSeq(str, IF atStart THEN SetMin(Inked(str)) ELSE 1,
              IF atEnd THEN SetMax(Inked(str)) ELSE Len(str))
Trim(str) == TrimEnds(str, TRUE, TRUE)

InkedLines(content) == {i \in 1..Len(content) : Inked(content[i]) # {}}

\* csvContent.trim().split(/\r?\n/), line 333: white lines at both ends are
\* dropped with the white space around them; an all-white content is one empty line
SplitTrimmed(content) ==
  IF InkedLines(content) = {} THEN << <<>> >>
  ELSE [i \in 1..(SetMax(InkedLines(content)) - SetMin(InkedLines(content)) + 1) |->
          TrimEnds(content[SetMin(InkedLines(content)) + i - 1], i = 1,
                   SetMin(InkedLines(content)) + i - 1 = SetMax(InkedLines(content)))]

\* parseCSVLine, lines 423-448
RECURSIVE ParseFrom(_, _, _, _, _)
ParseFrom(line, i, result, current, inQuotes) ==
  IF i > Len(line) THEN Append(result, current)
  ELSE IF line[i] = "\""
       THEN IF inQuotes /\ i + 1 <= Len(line) /\ line[i + 1] = "\""
            THEN ParseFrom(line, i + 2, result, Append(current, "\""), inQuotes)
            ELSE ParseFrom(line, i + 1, result, current, ~inQuotes)
  ELSE IF line[i] \in {",", ";"} /\ ~inQuotes
       THEN ParseFrom(line, i + 1, Append(result, current), <<>>, inQuotes)
  ELSE ParseFrom(line, i + 1, result, Append(current, line[i]), inQuotes)

ParseCSVLine(line) == ParseFrom(line, 1, <<>>, <<>>, FALSE)

Contains(str, keywords) == \E i \in 1..Len(str) : str[i] \in keywords

\* Lines 362-374: the column a header names, or "none"
HeaderKey(header) ==
  IF Contains(header, {"target", "chinese", "hanzi", "character", "arabic"}) THEN "target"
  ELSE IF Contains(header, {"pronunciation", "pinyin", "reading"}) THEN "pronunciation"
  ELSE IF Contains(header, {"english", "meaning", "definition", "translation"}) THEN "english"
  ELSE IF Contains(header, {"category", "tag", "type", "deck"}) THEN "category"
  ELSE IF header = <<"front">> THEN "target"
  ELSE IF header = <<"back">> THEN "english"
  ELSE "none"

\* columnMap; -1 is a key that is not set
NoColumns == [target |-> -1, pronunciation |-> -1, english |-> -1, category |-> -1]
DefaultColumns == [target |-> 0, pronunciation |-> 1, english |-> 2, category |-> 3]

\* Lines 358-375: headers.forEach
RECURSIVE MapHeaders(_, _, _)
MapHeaders(headers, i, columnMap) ==
  IF i > Len(headers) THEN columnMap
  ELSE MapHeaders(headers, i + 1,
                  IF HeaderKey(Trim(headers[i])) = "none" THEN columnMap
                  ELSE [columnMap EXCEPT ![HeaderKey(Trim(headers[i]))] = i - 1])

\* Lines 340-357
HasHeader(lines) ==
  Contains(lines[1], {"chinese", "pinyin", "english", "hanzi", "meaning", "front", "back",
                      "target", "pronunciation", "arabic"})

\* Lines 358-381
ColumnMapOf(lines) ==
  IF /\ HasHeader(lines)
     /\ Cardinality({key \in DOMAIN NoColumns :
                       MapHeaders(ParseCSVLine(lines[1]), 1, NoColumns)[key] >= 0}) >= 2
  THEN MapHeaders(ParseCSVLine(lines[1]), 1, NoColumns)
  ELSE DefaultColumns

\* columns[columnMap[key]]?.trim() || ''
Column(columns, index) ==
  IF index >= 0 /\ index < Len(columns) THEN Trim(columns[index + 1]) ELSE <<>>

\* Lines 392-417 for one row: the word, or the part that is missing
RowOf(columns, columnMap) ==
  [target |-> Column(columns, columnMap.target),
   pronunciation |-> Column(columns, columnMap.pronunciation),
   english |-> Column(columns, columnMap.english),
   category |-> IF Column(columns, columnMap.category) = <<>> THEN <<"custom">>
                ELSE Column(columns, columnMap.category)]

Missing(row) ==
  IF row.target = <<>> /\ row.english = <<>> THEN "both"
  ELSE IF row.target = <<>> THEN "target"
  ELSE IF row.english = <<>> THEN "english"
  ELSE "nothing"

\* Lines 386-418: the loop over the data rows; i is the 1-based line number
RECURSIVE RowsFrom(_, _, _, _)
RowsFrom(lines, i, columnMap, out) ==
  IF i > Len(lines) THEN out
  ELSE IF Trim(lines[i]) = <<>> THEN RowsFrom(lines, i + 1, columnMap, out)
  ELSE IF Missing(RowOf(ParseCSVLine(Trim(lines[i])), columnMap)) # "nothing"
       THEN RowsFrom(lines, i + 1, columnMap,
                     [out EXCEPT !.errors =
                        Append(@, [line |-> i,
                                   missing |-> Missing(RowOf(ParseCSVLine(Trim(lines[i])),
                                                             columnMap))])])
  ELSE RowsFrom(lines, i + 1, columnMap,
                [out EXCEPT !.words = Append(@, RowOf(ParseCSVLine(Trim(lines[i])), columnMap))])

\* parseAnkiCSV, lines 329-421 (split never returns an empty array, so the
\* 'Empty CSV file' branch of lines 334-337 is not taken)
ParseAnkiCSV(content) ==
  RowsFrom(SplitTrimmed(content), IF HasHeader(SplitTrimmed(content)) THEN 2 ELSE 1,
           ColumnMapOf(SplitTrimmed(content)), [words |-> <<>>, errors |-> <<>>])

(***************************************************************************)
(* DifficultySystem called directly: update applied to progress signals    *)
(* around every tier boundary, for the distance-gated class of             *)
(* systems/DifficultySystem.ts and the count-gated class of part_004.      *)
(***************************************************************************)
Boundaries ==
  {DIFFICULTY_THRESHOLDS[i].distance : i \in 1..Len(DIFFICULTY_THRESHOLDS)}
  \cup {CORRECT_ANSWERS_PER_LEVEL * k : k \in 0..MAX_LEVEL}

Signals ==
  {s \in Boundaries \cup {b - 1 : b \in Boundaries} \cup {MaxSignal} : s >= 0 /\ s <= MaxSignal}

\* A distance below every threshold; the count of correct answers is never negative
NegativeSignals == {-1}

UpdateOf(variant, ds, signal) ==
  IF variant = "distance" THEN DifficultyUpdate(ds, signal)
  ELSE CountDifficultyUpdate(ds, signal)

\* One call of update(signal) on an instance whose callback is registered
UpdateCall(variant, signal) ==
  /\ lastUpdate.variant \in {"none", variant}
  /\ difficultySystem' = UpdateOf(variant, difficultySystem, signal)
  /\ lastUpdate' =
       [variant |-> variant, signal |-> signal,
        previousSignal |-> IF lastUpdate = NoUpdate THEN -1 ELSE lastUpdate.signal,
        previousLevel |-> difficultySystem.hskLevel,
        previous |-> difficultySystem,
        first |-> lastUpdate = NoUpdate,
        notified |-> LevelChangeCalls(difficultySystem.hskLevel,
                                      UpdateOf(variant, difficultySystem, signal))]
  /\ UNCHANGED <<engine, now, clockRunning, clockOldTime, currentLane, targetX, playerX,
                 isMoving, tweenStart, scoreSystem, distance, lives, gameSpeed,
                 gates, lastGateSpawnTime, questionStartTime, prompt, isPaused,
                 isGameOver, stats, disposed, useCustomDeck, customWords, lastTick,
                 nextGateId, resolvedLog, removedLog, lastResolution, pausedTotal,
                 pausedAtSpawn, publishedAt, postGameOverOps, lastInput, cuesNow,
                 lastCall, wordManager, lastQuestion,
                 deckStore, lastImport>>

NextDifficulty ==
  \/ \E variant \in {"distance", "count"}, signal \in Signals : UpdateCall(variant, signal)
  \/ \E signal \in NegativeSignals : UpdateCall("distance", signal)

SpecDifficulty == InitScore /\ [][NextDifficulty]_vars

(***************************************************************************)
(* Game3D under ticks no more than 100 ms apart: requestAnimationFrame     *)
(* keeps calling animate() while the game is paused.  A run holds one      *)
(* pause that lasts for at least one tick.                                 *)
(***************************************************************************)
MaxTimeFine == 8500
FineDeltas == {40}

FineFrame(d) == AnimateWith(d, MaxTimeFine, CentreOnly)

FinePause == (isPaused \/ pausedTotal = 0) /\ TogglePause

NextFine ==
  \/ \E d \in FineDeltas : FineFrame(d)
  \/ FinePause

SpecFine == InitScore /\ [][NextFine]_vars

(***************************************************************************)
(* Game3D under unpaused ticks 40 ms apart with lane requests made in the  *)
(* first AcceptBy ms of the session                                        *)
(***************************************************************************)
AcceptBy == 120
ClearWithin == 3000

MoveInput(lane) == now <= AcceptBy /\ LaneInput(lane)

NextMove ==
  \/ \E d \in FineDeltas : FineFrame(d)
  \/ \E lane \in Lanes : MoveInput(lane)

SpecMove == InitScore /\ [][NextMove]_vars

(***************************************************************************)
(* Properties of the gate pipeline                                         *)
(***************************************************************************)
CollisionThreshold ==
  IF engine = "Game3D" THEN COLLISION_PROGRESS ELSE SCENE_COLLISION_PROGRESS
RetireThreshold ==
  IF engine = "Game3D" THEN RETIRE_PROGRESS ELSE SCENE_RETIRE_PROGRESS
One == IF engine = "Game3D" THEN ProgressOne ELSE SceneProgressOne

NoDuplicates(s) == \A i, j \in 1..Len(s) : s[i] = s[j] => i = j
Occurs(s, x) == \E k \in 1..Len(s) : s[k] = x

\* C1: in both loops each gate is passed to processGateCollision at most once, at
\* the first tick that leaves its progress at or above the collision threshold:
\* no gate id is resolved twice, calculateScore has run once per resolution, a gate
\* of the list is marked and resolved exactly when its progress has reached the
\* threshold, and every retired gate was resolved.
ResolvedExactlyOnce ==
  /\ NoDuplicates(resolvedLog)
  /\ scoreSystem.totalAnswers = Len(resolvedLog)
  /\ \A i \in 1..Len(gates) :
        /\ gates[i].processed <=> AtLeast(gates[i].progress, CollisionThreshold, One)
        /\ gates[i].processed <=> Occurs(resolvedLog, gates[i].question.id)
  /\ \A k \in 1..Len(removedLog) : Occurs(resolvedLog, removedLog[k])

\* A Game3D gate resolved at one tick and advanced again, still in the list, by a
\* later tick
ResolvedGateAdvancedAgain ==
  /\ engine = "Game3D"
  /\ Len(gates) > 0
  /\ gates[1].processed
  /\ lastResolution.gate = gates[1].question.id
  /\ lastTick > lastResolution.at
  /\ gates[1].progress = GateProgress(lastTick - gates[1].spawnTime, gameSpeed)

\* The progress a gate of the list would show at the latest tick if nothing clamped it
UnclampedProgress(i) == (lastTick - gates[i].spawnTime) * gameSpeed

\* C2: progress is not clamped, so a gate is gone from the active list once a tick
\* has run at which its elapsed time puts it at or past the retirement threshold,
\* in GameScene as in Game3D
RetiredOnceDue ==
  \A i \in 1..Len(gates) :
     /\ gates[i].progress = UnclampedProgress(i)
     /\ ~AtLeast(UnclampedProgress(i), RetireThreshold, One)

\* The same for the Game3D loop alone
Game3DRetiredOnceDue == engine = "Game3D" => RetiredOnceDue

\* Wall time a gate of the list has spent paused, up to now
PausedSinceSpawn(i) == pausedTotal - pausedAtSpawn[gates[i].question.id]

\* C3: in Game3D, at the tick that follows a resume (and at every other tick) each
\* gate's progress is what its unpaused time since spawn gives
PausedTimeExcluded ==
  (engine = "Game3D" /\ lastTick = now) =>
     \A i \in 1..Len(gates) :
        gates[i].progress =
          GateProgress(now - gates[i].spawnTime - PausedSinceSpawn(i), gameSpeed)

Unresolved == {i \in 1..Len(gates) : ~gates[i].processed}
EarliestUnresolved == CHOOSE i \in Unresolved : \A j \in Unresolved : i <= j

RemovedInSpawnOrder ==
  engine = "Game3D" =>
     \A i, j \in 1..Len(removedLog) : i < j => removedLog[i] < removedLog[j]

(***************************************************************************)
(* Properties of game over, lives and the lane lock                        *)
(***************************************************************************)
\* C6: once gameOver() has been called no gate is spawned, advanced, resolved or
\* retired, in the fatal tick or later
NothingAfterGameOver == postGameOverOps = {}

\* C7: in Game3D an input handled after game over leaves the lane, the movement
\* lock and the paused flag as it met them
InputIgnoredAfterGameOver ==
  (engine = "Game3D" /\ lastInput.kind # "none" /\ lastInput.over0) =>
     /\ currentLane = lastInput.lane0
     /\ isMoving = lastInput.moving0
     /\ isPaused = lastInput.paused0

\* The lives step of one resolution, and of a step that resolves nothing
LivesStep ==
  /\ scoreSystem'.totalAnswers = scoreSystem.totalAnswers => lives' = lives
  /\ (/\ scoreSystem'.totalAnswers = scoreSystem.totalAnswers + 1
      /\ scoreSystem'.correctAnswers = scoreSystem.correctAnswers)
       => /\ lives' = lives - 1
          /\ stats' # NoStats <=> lives' = 0
  /\ (/\ scoreSystem'.totalAnswers = scoreSystem.totalAnswers + 1
      /\ scoreSystem'.correctAnswers = scoreSystem.correctAnswers + 1)
       => lives' = IF scoreSystem'.correctAnswers % LIFE_EVERY = 0 /\ lives < INITIAL_LIVES
                   THEN lives + 1 ELSE lives

LivesInRange ==
  /\ lives \in 0..INITIAL_LIVES
  /\ stats # NoStats <=> lives = 0

\* C8: lives start at 3 and stay within 0..3; gameOver() has been called exactly
\* when lives are 0; a wrong resolution takes one life, a correct one that makes
\* the correct count a multiple of 10 gives one life below 3 and none at 3, and a
\* step that resolves nothing leaves lives alone
LivesContract ==
  /\ lives = INITIAL_LIVES
  /\ []LivesInRange
  /\ [][LivesStep]_vars

\* The tenth correct answer has given back a lost life
LifeRegained ==
  /\ scoreSystem.correctAnswers = LIFE_EVERY
  /\ lastResolution.gate # 0
  /\ lastResolution.correct
  /\ lastResolution.livesBefore = INITIAL_LIVES - 1
  /\ lives = INITIAL_LIVES

\* C9: with no correct answer yet, gameOver() has not been called after one or two
\* wrong answers, and after the third the game is over with lives 0 and the
\* snapshot reports 0 correct of 3
ThreeWrongEndTheGame ==
  scoreSystem.correctAnswers = 0 =>
     /\ scoreSystem.totalAnswers \in {1, 2} =>
           /\ stats = NoStats
           /\ lives = INITIAL_LIVES - scoreSystem.totalAnswers
     /\ scoreSystem.totalAnswers = 3 =>
           /\ stats # NoStats
           /\ lives = 0
           /\ stats.correctAnswers = 0
           /\ stats.totalAnswers = 3
           /\ IF engine = "Game3D" THEN isGameOver ELSE disposed

\* The third wrong answer of a session without a correct one
ThirdWrongAnswer ==
  /\ scoreSystem.correctAnswers = 0
  /\ scoreSystem.totalAnswers = 3
  /\ lastResolution.gate = 3
  /\ lastResolution.livesBefore = 1
  /\ stats # NoStats

SpacingTime == IF engine = "Game3D" THEN GATE_SPACING_TIME ELSE SCENE_GATE_SPACING_TIME

\* The step is an unpaused tick: the gate loop and the spawn test have run
Ticked == lastTick' # lastTick

\* Gates spawned by the step, and gates the step's gate loop left in the list
SpawnedNow == nextGateId' - nextGateId
LeftByLoop == Len(gates') - SpawnedNow

\* The spawn rule of one tick, read off the step
SpawnStep ==
  Ticked =>
    /\ SpawnedNow \in {0, 1}
    /\ SpawnedNow = 1 <=>
          \/ LeftByLoop = 0
          \/ (lastTick' - lastGateSpawnTime) * gameSpeed' > SpacingTime * 10
    /\ SpawnedNow = 1 =>
          /\ gates'[Len(gates')] =
                [question |-> gates'[Len(gates')].question, progress |-> 0,
                 processed |-> FALSE, spawnTime |-> lastTick']
          /\ gates'[Len(gates')].question.id = nextGateId'
          /\ lastGateSpawnTime' = lastTick'
          /\ LeftByLoop = 0 => (prompt' = nextGateId' /\ questionStartTime' = lastTick')
          /\ LeftByLoop # 0 => prompt' # nextGateId'

\* C11: at every unpaused tick a gate is spawned exactly when the gate loop left
\* the list empty or the time since the last spawn is strictly greater than
\* GATE_SPACING_TIME / speed; the new gate has progress 0 and is unresolved, and
\* it takes the prompt and resets the decision timer exactly when the list was
\* empty
SpawnRule == [][SpawnStep]_vars

\* A Game3D gate spawned behind a gate still in the list, which keeps the prompt
SpawnedBehindAnother ==
  /\ engine = "Game3D"
  /\ Len(gates) = 2
  /\ gates[2].spawnTime = lastTick
  /\ gates[2].progress = 0
  /\ lastTick > 0
  /\ prompt = gates[1].question.id

\* C12: the decision time passed to calculateScore for a Game3D gate is the time of
\* its resolution less the time at which that gate's own question was published
\* as the prompt
DecisionTimeFromOwnPrompt ==
  (engine = "Game3D" /\ lastResolution.gate # 0) =>
     /\ lastResolution.published >= 0
     /\ lastResolution.decisionTime = lastResolution.at - lastResolution.published

\* The decision timer is reset exactly at a publication: it always holds the time
\* at which the question now shown was published
TimerSetAtPublication ==
  questionStartTime = publishedAt[prompt]

AnswerCues ==
  IF scoreSystem'.totalAnswers = scoreSystem.totalAnswers THEN <<>>
  ELSE IF scoreSystem'.correctAnswers # scoreSystem.correctAnswers
       THEN IF StreakBonus(scoreSystem'.streak) > 0
            THEN <<"correct", "streak">> ELSE <<"correct">>
       ELSE <<"wrong", "lifeLost">>

CuesDue ==
  (IF difficultySystem'.hskLevel # difficultySystem.hskLevel THEN <<"levelUp">> ELSE <<>>)
  \o AnswerCues
  \o (IF stats = NoStats /\ stats' # NoStats THEN <<"gameOver">> ELSE <<>>)
  \o (IF lastInput'.kind = "lane" /\ ~isMoving /\ isMoving' THEN <<"whoosh">> ELSE <<>>)

\* C14 as stated, for the lane cue: every lane request handled plays one whoosh
WhooshPerRequest == lastInput.kind = "lane" => cuesNow = <<"whoosh">>

\* C14: every step plays exactly the cues due for it: levelUp at a level change,
\* correct (and streak when the streak bonus is positive) or wrong and lifeLost
\* at a resolution, gameOver at the call of gameOver(), and whoosh at a lane
\* request that sets the movement lock; a request that is ignored plays nothing
OneCuePerEvent == [][cuesNow' = CuesDue]_vars

\* The tick that reaches the second level and resolves a gate
LevelUpAnnounced ==
  /\ Len(cuesNow) >= 2
  /\ cuesNow[1] = "levelUp"
  /\ cuesNow[2] = "correct"
  /\ difficultySystem.hskLevel = 2

(***************************************************************************)
(* Properties of ScoreSystem.calculateScore                                *)
(***************************************************************************)
Called == lastCall.hskLevel > 0

\* C15: calculateScore(false, t, level) returns zero basePoints, speedBonus,
\* streakBonus and totalPoints, sets the streak to 0, adds exactly 1 to
\* totalAnswers and leaves score, correctAnswers and maxStreak as they were.
IncorrectAnswerEffect ==
  (Called /\ ~lastCall.correct) =>
    /\ lastCall.result.basePoints = 0 /\ lastCall.result.speedBonus = 0
    /\ lastCall.result.streakBonus = 0 /\ lastCall.result.totalPoints = 0
    /\ scoreSystem.streak = 0
    /\ scoreSystem.totalAnswers = lastCall.before.totalAnswers + 1
    /\ scoreSystem.score = lastCall.before.score
    /\ scoreSystem.correctAnswers = lastCall.before.correctAnswers
    /\ scoreSystem.maxStreak = lastCall.before.maxStreak

IncorrectAfterStreak ==
  /\ Called /\ ~lastCall.correct
  /\ lastCall.before.streak >= 5 /\ lastCall.before.score > 0
  /\ lastCall.decisionTimeMs = 999 /\ lastCall.hskLevel = 6

MultiplierWithinDocumentedRange ==
  (Called /\ lastCall.correct) =>
    /\ 100 <= lastCall.result.multiplier * 10
    /\ lastCall.result.multiplier * 10 <= 125

\* C18: the streak bonus of a correct answer is a function of the streak after
\* the answer only: 200 at 5, 500 at 10, 300 at a multiple of 5 above 10, else 0.
StreakBonusByStreak ==
  (Called /\ lastCall.correct) =>
    lastCall.result.streakBonus =
      IF scoreSystem.streak = 5 THEN 200
      ELSE IF scoreSystem.streak = 10 THEN 500
      ELSE IF scoreSystem.streak > 10 /\ scoreSystem.streak % 5 = 0 THEN 300
      ELSE 0

FifteenAfterAMiss ==
  /\ Called /\ lastCall.correct
  /\ scoreSystem.streak = 15 /\ lastCall.result.streakBonus = 300
  /\ scoreSystem.correctAnswers > 15 /\ scoreSystem.totalAnswers > scoreSystem.correctAnswers

\* C19: from a fresh ScoreSystem, n fast correct answers at level 1 score
\* 150 * n, plus 200 once n >= 5, plus 500 once n >= 10, plus 300 for each
\* further multiple of 5 above 10; after 10 answers the score is 2200.
FurtherFives(n) == IF n >= 15 THEN n \div 5 - 2 ELSE 0

FastRunScore ==
  (Called /\ lastCall.fastAtOne) =>
    /\ scoreSystem.score =
         150 * scoreSystem.totalAnswers
         + (IF scoreSystem.totalAnswers >= 5 THEN 200 ELSE 0)
         + (IF scoreSystem.totalAnswers >= 10 THEN 500 ELSE 0)
         + 300 * FurtherFives(scoreSystem.totalAnswers)
    /\ scoreSystem.totalAnswers = 10 => scoreSystem.score = 2200

FastRunOfFifteen ==
  /\ Called /\ lastCall.fastAtOne
  /\ scoreSystem.totalAnswers = 15 /\ scoreSystem.score = 3250

\* C20: score, maxStreak, correctAnswers and totalAnswers never decrease; the
\* streak decreases only to 0, on an incorrect answer; and always
\* 0 <= streak <= maxStreak <= correctAnswers <= totalAnswers and score >= 0.
ScoreOrder ==
  /\ 0 <= scoreSystem.streak
  /\ scoreSystem.streak <= scoreSystem.maxStreak
  /\ scoreSystem.maxStreak <= scoreSystem.correctAnswers
  /\ scoreSystem.correctAnswers <= scoreSystem.totalAnswers
  /\ scoreSystem.score >= 0

ScoreGrows ==
  /\ scoreSystem'.score >= scoreSystem.score
  /\ scoreSystem'.maxStreak >= scoreSystem.maxStreak
  /\ scoreSystem'.correctAnswers >= scoreSystem.correctAnswers
  /\ scoreSystem'.totalAnswers >= scoreSystem.totalAnswers
  /\ scoreSystem'.streak < scoreSystem.streak =>
       /\ scoreSystem'.streak = 0
       /\ scoreSystem'.correctAnswers = scoreSystem.correctAnswers
       /\ scoreSystem'.totalAnswers = scoreSystem.totalAnswers + 1

ScoreSystemMonotone == []ScoreOrder /\ [][ScoreGrows]_vars

StreakLostMaxKept ==
  /\ Called /\ scoreSystem.streak = 0 /\ scoreSystem.maxStreak = 10
  /\ scoreSystem.correctAnswers < scoreSystem.totalAnswers

(***************************************************************************)
(* Properties of DifficultySystem.update                                   *)
(***************************************************************************)
Updated == lastUpdate.variant # "none"

\* C21: the DifficultySystem that the game loops feed with getCorrectAnswers()
\* (the distance-gated class) resolves level min(6, floor(correctAnswers / 50) + 1).
LevelEveryFiftyCorrect ==
  (Updated /\ lastUpdate.variant = "distance") =>
    difficultySystem.hskLevel = Min(6, lastUpdate.signal \div 50 + 1)

\* C22: update is a non-decreasing, saturating step function of its signal: a
\* call with a signal at least the previous call's, both >= 0, resolves a level
\* at least the previous one, and the level is always within 1..6.
LevelNonDecreasing ==
  Updated =>
    /\ difficultySystem.hskLevel \in 1..6
    /\ (~lastUpdate.first /\ 0 <= lastUpdate.previousSignal
          /\ lastUpdate.previousSignal <= lastUpdate.signal)
         => lastUpdate.previousLevel <= difficultySystem.hskLevel
    /\ (~lastUpdate.first /\ 0 <= lastUpdate.signal
          /\ lastUpdate.previousSignal >= lastUpdate.signal)
         => lastUpdate.previousLevel >= difficultySystem.hskLevel

SaturatedAtSix ==
  /\ Updated /\ ~lastUpdate.first /\ lastUpdate.variant = "count"
  /\ lastUpdate.previousSignal = 300 /\ lastUpdate.signal = MaxSignal
  /\ lastUpdate.previousLevel = 6 /\ difficultySystem.hskLevel = 6

\* C23: the level-change callback is invoked exactly once, with the new level,
\* by each update whose resolved level differs from the previous call's, not at
\* all when the level is unchanged, and not by a first update that resolves 1.
CallbackPerTransition ==
  Updated =>
    /\ lastUpdate.notified =
         IF difficultySystem.hskLevel # lastUpdate.previousLevel
         THEN <<difficultySystem.hskLevel>> ELSE <<>>
    /\ (lastUpdate.first /\ difficultySystem.hskLevel = 1) => lastUpdate.notified = <<>>

LevelDroppedAndAnnounced ==
  /\ Updated /\ lastUpdate.variant = "distance"
  /\ lastUpdate.previousLevel = 4 /\ lastUpdate.notified = <<2>>

(***************************************************************************)
(* Properties of WordManager.generateQuestion                              *)
(***************************************************************************)
Asked == lastQuestion.hskLevel > 0

OptionsAt(q, lane) == {i \in 1..Len(q.options) : q.options[i].lane = lane}
OptionsWith(q, target) == {i \in 1..Len(q.options) : q.options[i].word.target = target}
DistractorOptions(q) ==
  {i \in 1..Len(q.options) : q.options[i].word.target # q.correctWord.target}
Defined(pool, word) == \E i \in 1..Len(pool) : pool[i] = word

\* C24: every question has exactly 3 options, one per lane left, center and
\* right; exactly one option carries the correct word's text, and correctLane
\* is that option's lane.
QuestionWellFormed ==
  Asked =>
    /\ Len(lastQuestion.question.options) = 3
    /\ \A lane \in Lanes : Cardinality(OptionsAt(lastQuestion.question, lane)) = 1
    /\ Cardinality(OptionsWith(lastQuestion.question,
                               lastQuestion.question.correctWord.target)) = 1
    /\ \A i \in OptionsWith(lastQuestion.question, lastQuestion.question.correctWord.target) :
         /\ lastQuestion.question.options[i].lane = lastQuestion.question.correctLane
         /\ lastQuestion.question.options[i].word = lastQuestion.question.correctWord

CorrectOnTheRight ==
  /\ Asked /\ lastQuestion.hskLevel = 2
  /\ lastQuestion.question.correctLane = "right"
  /\ lastQuestion.question.options[3].word = lastQuestion.question.correctWord
  /\ \A i \in 1..3 : Defined(lastQuestion.pool, lastQuestion.question.options[i].word)

\* C25: from a pool with at least 3 different texts, the two distractors are
\* defined words of the pool whose texts differ from the correct word's and
\* from each other's.
DistractorsDistinct ==
  (Asked /\ Cardinality(Targets(lastQuestion.pool)) >= 3) =>
    /\ Cardinality(DistractorOptions(lastQuestion.question)) = 2
    /\ \A i \in DistractorOptions(lastQuestion.question) :
         Defined(lastQuestion.pool, lastQuestion.question.options[i].word)
    /\ \A i, j \in DistractorOptions(lastQuestion.question) :
         i # j => lastQuestion.question.options[i].word.target
                    # lastQuestion.question.options[j].word.target

ThreeWordDeck ==
  /\ Asked /\ Len(wordManager.customWords) = 3
  /\ Cardinality(Targets(lastQuestion.pool)) = 3
  /\ lastQuestion.question.correctWord = Word(2)
  /\ Cardinality(DistractorOptions(lastQuestion.question)) = 2

\* C26: while every pool read so far held at least 21 different texts, the
\* correct word of a question differs from the correct words of the 20
\* questions before it, across level changes too.
Window(generated) ==
  {generated[i] : i \in Max(1, Len(generated) - MAX_RECENT_WORDS)..(Len(generated) - 1)}

NoRepeatWithinTwenty ==
  (Asked /\ lastQuestion.fewestTexts >= 21) =>
    lastQuestion.generated[Len(lastQuestion.generated)] \notin Window(lastQuestion.generated)

FullWindowAcrossLevels ==
  /\ Asked /\ lastQuestion.fewestTexts >= 21
  /\ Len(lastQuestion.generated) > MAX_RECENT_WORDS + 1
  /\ Cardinality(Window(lastQuestion.generated)) = MAX_RECENT_WORDS
  /\ lastQuestion.hskLevel = 3
  /\ lastQuestion.generated[Len(lastQuestion.generated)] <= WordsPerLevel * 2

\* C27: the recency buffer holds at most 20 entries, namely the latest correct
\* texts in generation order, and the 21st push evicts exactly the oldest.
LatestOf(generated) ==
  SubSeq(generated, Max(1, Len(generated) - MAX_RECENT_WORDS + 1), Len(generated))

RecencyBufferFifo ==
  Asked =>
    /\ Len(wordManager.recentWords) <= 20
    /\ wordManager.recentWords = LatestOf(lastQuestion.generated)
    /\ Len(lastQuestion.recentBefore) = 20 =>
         wordManager.recentWords =
           Append(Tail(lastQuestion.recentBefore),
                  lastQuestion.question.correctWord.target)
    /\ Len(lastQuestion.recentBefore) < 20 =>
         wordManager.recentWords =
           Append(lastQuestion.recentBefore, lastQuestion.question.correctWord.target)

OldestEvicted ==
  /\ Asked /\ Len(lastQuestion.recentBefore) = 20
  /\ Len(lastQuestion.generated) = MAX_RECENT_WORDS + 2
  /\ wordManager.recentWords[1] = lastQuestion.generated[3]
  /\ lastQuestion.recentBefore[1] = lastQuestion.generated[2]

\* C28: when the pool holds at least 2 words of different text, other than the
\* correct word, in the correct word's category, both distractors have that category.
SameCategoryTexts(q, pool) ==
  {pool[i].target : i \in {k \in 1..Len(pool) :
                             /\ pool[k].category = q.correctWord.category
                             /\ pool[k].target # q.correctWord.target}}

DistractorsPreferCategory ==
  (Asked /\ Cardinality(SameCategoryTexts(lastQuestion.question, lastQuestion.pool)) >= 2) =>
    \A i \in DistractorOptions(lastQuestion.question) :
      lastQuestion.question.options[i].word.category
        = lastQuestion.question.correctWord.category

CategoryKeptInMixedPool ==
  /\ Asked /\ wordManager.customWords = <<>>
  /\ Cardinality(SameCategoryTexts(lastQuestion.question, lastQuestion.pool)) >= 2
  /\ \E i \in 1..Len(lastQuestion.pool) :
       lastQuestion.pool[i].category # lastQuestion.question.correctWord.category
  /\ Cardinality(DistractorOptions(lastQuestion.question)) = 2

\* C29: with a non-empty custom deck every word of a question comes from the
\* deck, whatever the level; without one the pool is the level's words followed
\* by the previous level's (none at level 1) and every word comes from it.
ExpectedPool ==
  IF wordManager.customWords # <<>> THEN wordManager.customWords
  ELSE IF lastQuestion.hskLevel = 1 THEN GetWordsForLevel(1)
  ELSE GetWordsForLevel(lastQuestion.hskLevel) \o GetWordsForLevel(lastQuestion.hskLevel - 1)

PoolByDeckOrLevel ==
  Asked =>
    /\ lastQuestion.pool = ExpectedPool
    /\ Defined(ExpectedPool, lastQuestion.question.correctWord)
    /\ \A i \in 1..Len(lastQuestion.question.options) :
         \/ Defined(ExpectedPool, lastQuestion.question.options[i].word)
         \/ lastQuestion.question.options[i].word = UndefinedWord

DeckAtLevelThree ==
  /\ Asked /\ Len(wordManager.customWords) > MAX_RECENT_WORDS
  /\ lastQuestion.hskLevel = 3
  /\ \A i \in 1..3 : Defined(wordManager.customWords, lastQuestion.question.options[i].word)

\* C30: from a pool with at least 1 but fewer than 3 different texts the
\* question has fewer than 3 options and no option with an undefined word.
FewerOptionsFromSmallPool ==
  (Asked /\ Cardinality(Targets(lastQuestion.pool)) \in 1..2) =>
    /\ Len(lastQuestion.question.options) < 3
    /\ \A i \in 1..Len(lastQuestion.question.options) :
         lastQuestion.question.options[i].word # UndefinedWord

(***************************************************************************)
(* The custom-deck store and the two import handlers                       *)
(***************************************************************************)
\* saveCustomDeck, clearCustomDeck, hasCustomDeck (lines 450-470): the item
\* holds JSON.stringify(words), read back by JSON.parse as the same words
SaveCustomDeck(store, words) == [store EXCEPT !.item = words]
ClearCustomDeck(store) == [store EXCEPT !.item = NoDeck]
HasCustomDeck(store) == store.item # NoDeck

\* An import that saves whatever the parser returned
ImportOfAnything(store, content) ==
  [store |-> [SaveCustomDeck(store, ParseAnkiCSV(content).words) EXCEPT !.useCustomDeck = TRUE],
   reported |-> "saved"]

\* csvInput.onchange, lines 264-282 of game3d/index.ts; showTitleScreen draws
\* the deck status from hasCustomDeck()
OnChangeOf(store, content) ==
  IF Len(ParseAnkiCSV(content).words) > 0
  THEN [store |-> [SaveCustomDeck(store, ParseAnkiCSV(content).words)
                     EXCEPT !.useCustomDeck = HasCustomDeck(SaveCustomDeck(store, ParseAnkiCSV(content).words))],
        reported |-> "saved"]
  ELSE [store |-> store, reported |-> "failed"]

\* TitleScene.handleFileUpload, part_003:233-264; the empty string is the
\* content of one empty line
HandleFileUploadOf(store, content) ==
  IF content = << <<>> >> THEN [store |-> store, reported |-> "failed"]
  ELSE IF Len(ParseAnkiCSV(content).words) = 0 THEN [store |-> store, reported |-> "failed"]
  ELSE [store |-> [SaveCustomDeck(store, ParseAnkiCSV(content).words) EXCEPT !.useCustomDeck = TRUE],
        reported |-> "saved"]

(***************************************************************************)
(* parseAnkiCSV called directly on every content of up to MaxLines lines,   *)
(* once, from the initial state                                            *)
(***************************************************************************)
MaxLines == 3

CsvLines ==
  { <<"a", ",", "p", ",", "e">>,
    <<"a", ";", "p", ";", "e", ";", "c">>,
    <<" ", "a", " ", ",", "p", ",", "e", ",", " ">>,
    <<",", "p", ",", "e">>,
    <<"a", ",", "p">>,
    <<" ", ",", " ">>,
    <<>>,
    <<" ">>,
    <<"english", ",", "target">>,
    <<"\"", "a", ",", "b", "\"", ",", "p", ",", "\"", "\"", "\"", "e", "\"">>,
    <<"a", ",", "p", ",", "back">> }

CsvContents == UNION {[1..n -> CsvLines] : n \in 1..MaxLines}

ParseCall(content) ==
  /\ lastImport = NoImport
  /\ lastImport' = [handler |-> "parseAnkiCSV", content |-> content,
                    result |-> ParseAnkiCSV(content)]
  /\ UNCHANGED <<engine, now, clockRunning, clockOldTime, currentLane, targetX, playerX,
                 isMoving, tweenStart, scoreSystem, difficultySystem, distance, lives,
                 gameSpeed, gates, lastGateSpawnTime, questionStartTime, prompt, isPaused,
                 isGameOver, stats, disposed, useCustomDeck, customWords, lastTick,
                 nextGateId, resolvedLog, removedLog, lastResolution, pausedTotal,
                 pausedAtSpawn, publishedAt, postGameOverOps, lastInput, cuesNow,
                 lastCall, lastUpdate, wordManager, lastQuestion, deckStore>>

(***************************************************************************)
(* Up to MaxImports imports and resets of the stored deck                  *)
(***************************************************************************)
MaxImports == 2

ImportContents ==
  {content \in CsvContents : Len(content) = 1}
    \cup { << <<"english", ",", "target">>, <<"e", ",", "a">> >>,
           << <<"a", ",", "p", ",", "e">>, <<"a", ",", "p">> >>,
           << <<>>, <<",", "p", ",", "e">> >> }

Imported(handler, content, outcome) ==
  /\ lastImport.handler # "parseAnkiCSV"
  /\ IF lastImport.handler = "none" THEN TRUE ELSE lastImport.count < MaxImports
  /\ deckStore' = outcome.store
  /\ lastImport' = [handler |-> handler, content |-> content, before |-> deckStore,
                    reported |-> outcome.reported,
                    count |-> IF lastImport.handler = "none" THEN 1 ELSE lastImport.count + 1]
  /\ UNCHANGED <<engine, now, clockRunning, clockOldTime, currentLane, targetX, playerX,
                 isMoving, tweenStart, scoreSystem, difficultySystem, distance, lives,
                 gameSpeed, gates, lastGateSpawnTime, questionStartTime, prompt, isPaused,
                 isGameOver, stats, disposed, useCustomDeck, customWords, lastTick,
                 nextGateId, resolvedLog, removedLog, lastResolution, pausedTotal,
                 pausedAtSpawn, publishedAt, postGameOverOps, lastInput, cuesNow,
                 lastCall, lastUpdate, wordManager, lastQuestion>>

OnChange(content) == Imported("csvInput.onchange", content, OnChangeOf(deckStore, content))

HandleFileUpload(content) ==
  Imported("handleFileUpload", content, HandleFileUploadOf(deckStore, content))

\* useDefaultBtn.onclick (index.ts:285-290) and TitleScene's default-deck
\* button (part_003:198-199)
UseDefault ==
  Imported("useDefault", << <<>> >>,
           [store |-> [ClearCustomDeck(deckStore) EXCEPT !.useCustomDeck = FALSE],
            reported |-> "cleared"])

NextImport ==
  \/ \E content \in CsvContents : ParseCall(content)
  \/ \E content \in ImportContents : OnChange(content)
  \/ \E content \in ImportContents : HandleFileUpload(content)
  \/ UseDefault

SpecImport == InitScore /\ [][NextImport]_vars

(***************************************************************************)
(* Claims about the CSV parser and the import                              *)
(***************************************************************************)
Parsed == lastImport.handler = "parseAnkiCSV"

\* The line of the file that holds the header, 0 when there is none
HeaderLineOf(content) ==
  IF InkedLines(content) # {} /\ HasHeader(SplitTrimmed(content))
  THEN SetMin(InkedLines(content)) ELSE 0

\* The data rows of the file that are not blank, by their 1-based line number
DataRowsOf(content) ==
  {j \in InkedLines(content) : j > HeaderLineOf(content)}

FileRow(content, j) == RowOf(ParseCSVLine(Trim(content[j])), ColumnMapOf(SplitTrimmed(content)))

RejectedRowsOf(content) == {j \in DataRowsOf(content) : Missing(FileRow(content, j)) # "nothing"}

\* C31: parseAnkiCSV rejects every data row whose target, English or both
\* are empty with exactly one error that carries the row's 1-based line
\* number in the file, accepts every other non-blank data row as a word, and
\* gives an accepted row the category "custom" when it has none.
ErrorPerRejectedRow ==
  Parsed =>
    /\ Len(lastImport.result.errors) = Cardinality(RejectedRowsOf(lastImport.content))
    /\ {lastImport.result.errors[k].line : k \in 1..Len(lastImport.result.errors)}
         = RejectedRowsOf(lastImport.content)
    /\ Len(lastImport.result.words)
         = Cardinality(DataRowsOf(lastImport.content) \ RejectedRowsOf(lastImport.content))
    /\ \A k \in 1..Len(lastImport.result.words) :
         /\ lastImport.result.words[k].target # <<>>
         /\ lastImport.result.words[k].english # <<>>
         /\ lastImport.result.words[k].category # <<>>

ImportHandlers == {"csvInput.onchange", "handleFileUpload"}

\* C32: an import stores the parsed words in place of the stored deck if and
\* only if the content has at least one valid row; with no valid row it is
\* reported as failed and the stored deck and the active-deck flag stay as
\* they were.
ImportStoresIffValid ==
  lastImport.handler \in ImportHandlers =>
    IF Len(ParseAnkiCSV(lastImport.content).words) > 0
    THEN /\ lastImport.reported = "saved"
         /\ deckStore.item = ParseAnkiCSV(lastImport.content).words
         /\ deckStore.useCustomDeck
    ELSE /\ lastImport.reported = "failed"
         /\ deckStore = lastImport.before

\* A failed import of rows that are all invalid, with a deck in the store
FailedImportKeepsDeck ==
  /\ lastImport.handler \in ImportHandlers
  /\ lastImport.reported = "failed"
  /\ Len(lastImport.content) = 2
  /\ lastImport.before.item # NoDeck
  /\ deckStore.item = lastImport.before.item
  /\ deckStore.useCustomDeck

(***************************************************************************)
(* Claims about the difficulty tables                                      *)
(***************************************************************************)
\* The row of the updated class's table for a level, speed in hundredths
TableRow(variant, level) ==
  IF variant = "distance"
  THEN [hskLevel |-> DIFFICULTY_THRESHOLDS[level].hskLevel,
        speed |-> DIFFICULTY_THRESHOLDS[level].speed * 10,
        decisionTime |-> DIFFICULTY_THRESHOLDS[level].decisionTime]
  ELSE LEVEL_SETTINGS[level]

SettingsNow ==
  [hskLevel |-> difficultySystem.hskLevel,
   speed |-> IF lastUpdate.variant = "distance" THEN difficultySystem.speedMultiplier * 10
             ELSE difficultySystem.speedMultiplier,
   decisionTime |-> difficultySystem.decisionTime]

\* C33: the settings update returns are the table row of the level, with
\* speedMultiplier >= 1.0; over the levels 1..6 the speed strictly increases
\* from 1.0 to 1.25 and decisionTime strictly decreases from 3000 ms.
SettingsFromReferenceTable ==
  Updated =>
    /\ SettingsNow = TableRow(lastUpdate.variant, difficultySystem.hskLevel)
    /\ SettingsNow.speed >= 100
    /\ difficultySystem.hskLevel = 1 => SettingsNow.speed = 100 /\ SettingsNow.decisionTime = 3000
    /\ difficultySystem.hskLevel = 6 => SettingsNow.speed = 125
    /\ \A level \in 1..(difficultySystem.hskLevel - 1) :
         /\ TableRow(lastUpdate.variant, level).speed < SettingsNow.speed
         /\ TableRow(lastUpdate.variant, level).decisionTime > SettingsNow.decisionTime

\* C34: the distance-gated update(distance) resolves the settings of the
\* highest tier whose threshold (0, 500, 1500, 3000, 5000, 8000) is <= distance;
\* for a distance below every threshold the settings stay as they were and no
\* callback is fired.
HighestTierSelected ==
  (Updated /\ lastUpdate.variant = "distance") =>
    IF lastUpdate.signal < 0
    THEN difficultySystem = lastUpdate.previous /\ lastUpdate.notified = <<>>
    ELSE \E i \in 1..6 :
           /\ <<0, 500, 1500, 3000, 5000, 8000>>[i] <= lastUpdate.signal
           /\ \A j \in (i + 1)..6 : <<0, 500, 1500, 3000, 5000, 8000>>[j] > lastUpdate.signal
           /\ SettingsNow = TableRow("distance", i)
           /\ difficultySystem.hskLevel = i

\* update(-1) on an instance at level 4
NegativeDistanceAtLevelFour ==
  /\ Updated /\ lastUpdate.variant = "distance"
  /\ lastUpdate.signal < 0
  /\ lastUpdate.previousLevel = 4
  /\ difficultySystem.hskLevel = 4 /\ difficultySystem.decisionTime = 2100

(***************************************************************************)
(* Claims about the gate list of the running loops                         *)
(***************************************************************************)
\* C35: in Game3D, when processGateCollision resolves a gate the prompt on
\* display is the question of that gate.
JudgedAgainstShownQuestion ==
  (engine = "Game3D" /\ lastResolution.gate # 0) =>
     lastResolution.prompt = lastResolution.gate

\* What one tick does to the unresolved gates: it resolves at most one gate,
\* and a gate it spawns joins a list whose other gates are all resolved
OneUnresolvedStep ==
  Ticked =>
    /\ Len(resolvedLog') - Len(resolvedLog) \in {0, 1}
    /\ Cardinality({i \in 1..Len(gates') : ~gates'[i].processed}) <= 1
    /\ SpawnedNow = 1 => \A i \in 1..(Len(gates') - 1) : gates'[i].processed

\* C36: in both loops the list never holds more than one unresolved gate: a
\* tick spawns a gate only when every earlier gate is resolved, and resolves
\* at most one collision.
AtMostOneUnresolved == [][OneUnresolvedStep]_vars

\* A Game3D tick after a long gap that resolved a gate and spawned the next
ResolvedAndSpawnedInOneTick ==
  /\ engine = "Game3D"
  /\ lastTick > 0
  /\ lastResolution.gate # 0 /\ lastResolution.at = lastTick
  /\ Len(gates) >= 2
  /\ gates[Len(gates)].spawnTime = lastTick
  /\ Unresolved = {Len(gates)}

\* C37: in Game3D the list holds at most 2 gates at the end of every tick.
AtMostTwoGates ==
  engine = "Game3D" => Len(gates) <= 2

\* The third gate spawned behind the second after the first was retired
ThirdGateBehindSecond ==
  /\ engine = "Game3D"
  /\ Len(gates) = 2
  /\ gates[2].question.id >= 3
  /\ gates[2].spawnTime = lastTick
  /\ Len(removedLog) = gates[2].question.id - 2

\* C38: in Game3D under ticks no more than 100 ms apart, the decision time
\* passed to calculateScore is at least 1000 ms for every gate, and no answer
\* is given the speed bonus.
NoSpeedBonusInPlay ==
  (engine = "Game3D" /\ lastResolution.gate # 0) =>
     /\ lastResolution.decisionTime >= SPEED_BONUS_LIMIT
     /\ lastResolution.speedBonus = 0

\* C39: in Game3D the k-th correct answer is scored with the level of the
\* correct-answer count before it, min(6, floor((k - 1) / 50) + 1).
ScoredWithLevelOfCountBefore ==
  (engine = "Game3D" /\ lastResolution.gate # 0 /\ lastResolution.correct) =>
     lastResolution.level = Min(6, (scoreSystem.correctAnswers - 1) \div 50 + 1)

\* C40: after moveToLane accepts a request the movement lock is cleared again
\* while unpaused ticks keep occurring (here: within ClearWithin ms of ticks
\* after the last moment a request can be made); while the lock is set
\* currentLane is the requested lane, and it is the lane a collision compares.
LockClearedWhileTicking ==
  engine = "Game3D" =>
    /\ isMoving => now <= AcceptBy + ClearWithin
    /\ isMoving => targetX = LaneX(currentLane)
    /\ (lastInput # NoInput /\ lastInput.kind = "lane" /\ ~lastInput.moving0)
         => currentLane = lastInput.lane
    /\ lastResolution.gate # 0 => lastResolution.correct = (currentLane = "center")

====
